---- MODULE Spec2Model ----
(***************************************************************************)
(* Tab / panel state model of the editor shell.                            *)
(*                                                                         *)
(*   - ObsidianLayout (panel tree, per-panel local history)                *)
(*   - TabBar wrappers (activation / back / forward with Tab Manager       *)
(*     history)                                                            *)
(*   - TabManagerProvider (groups, stacks, workspace layouts, navigation   *)
(*     histories)                                                          *)
(*                                                                         *)
(* Every user event runs to completion and is followed by a re-render, so  *)
(* a handler's closure sees the state its predecessor left.  JavaScript    *)
(* objects that the code mutates in place (tab group records and their tab *)
(* arrays) live in an explicit heap, so that sharing between the live      *)
(* state and stored layouts is visible.                                    *)
(***************************************************************************)
EXTENDS Integers, Sequences, FiniteSets, TLC

VARIABLES
    panelTree,            \* ObsidianLayout: useState<PanelNode>
    historyByPanelId,     \* ObsidianLayout: useState<Record<string,{stack,index}>>
    lastActivePanelId,    \* ObsidianLayout: useState<string>
    clock,                \* Date.now()
    navigationHistories,  \* TabManagerState.navigationHistories
    tabGroups,            \* TabManagerState.tabGroups : group id -> object reference
    groupObjs,            \* heap of TabGroup objects
    groupArrs,            \* heap of the string[] arrays held in TabGroup.tabs
    tabStacks,            \* TabManagerState.tabStacks
    workspaceLayouts,     \* TabManagerState.workspaceLayouts
    shortcuts,            \* TabManagerState.shortcuts
    settings,             \* TabManagerState.settings
    idCounter,            \* number of group/stack/layout ids handed out so far
    mounted,              \* TabManagerProvider is mounted
    saveTimer,            \* saveTimer.current: the timeout the ref names, by its state
    timers,               \* the timeouts still to fire, each by the state it captured
    storage,              \* localStorage item 'obsidian.clone.tabManager'
    lastWrite,            \* how the latest localStorage.setItem ended
    snapshotAtSave,       \* per stored layout, the value it held when it was saved
    crashed,              \* an exception escaped a state updater
    last,                 \* the last operation: name, arguments, result, state before
    turns,                \* user events still to be explored
    edits                 \* tab-list edit events still to be explored

treeVars == <<panelTree, historyByPanelId, lastActivePanelId, clock>>
groupVars == <<tabGroups, groupObjs, groupArrs>>
tmVars == <<navigationHistories, tabGroups, groupObjs, groupArrs, tabStacks,
            workspaceLayouts, idCounter>>
persistVars == <<mounted, saveTimer, timers, storage, lastWrite>>
vars == <<panelTree, historyByPanelId, lastActivePanelId, clock,
          navigationHistories, tabGroups, groupObjs, groupArrs, tabStacks,
          workspaceLayouts, shortcuts, settings, idCounter, mounted, saveTimer,
          timers, storage, lastWrite, snapshotAtSave, crashed, last, turns, edits>>

-----------------------------------------------------------------------------
(* Bounds of the model *)

\* user events explored on the tab bars (all handlers)
TreeTurns == 4
\* of which events that edit a tab list other than by closing or activating
MaxEdits == 1
\* user events explored when only closing tabs and splitting panels
PanelTurns == 5
\* leaves a split may bring the tree to
MaxLeaves == 4
\* calls explored on the whole Tab Manager interface
ManagerTurns == 3
\* calls explored on the groups and the workspace layouts
LayoutTurns == 4
\* user events explored with the keyboard shortcut for a new tab
KeyTurns == 3
\* user events explored with splitPanel on any id
SplitTurns == 4
\* user events explored over the provider's life
PersistTurns == 5
\* state changes explored in a burst
BurstTurns == 3
\* events explored with handlers that make two calls
BatchTurns == 3
\* calls explored on the histories and their recent tabs
RecentTurns == 4
\* the largest limit handed to getRecentTabs, the default aside
MaxLimit == 3
\* calls explored on the settings
SettingsTurns == 3
\* the largest small tab count handed to shouldStackTabs
MaxTabCount == 3
\* calls explored on groups that are never deleted
CreateTurns == 4
\* user events explored on a tab bar with stacked tabs
StackedTurns == 4
\* calls explored on the tab stacks
StackTurns == 4
\* user events explored on tabs that can be locked
LockTurns == 3
\* calls explored on stacks of up to three tabs
MemberTurns == 5
\* clicks explored on tabs and on the back / forward buttons
NavigationTurns == 4
\* history calls and pairs of calls per behaviour
SameTurnTurns == 4
\* calls explored on the navigation histories
HistoryTurns == 4
\* groups, stacks and layouts stored at a time
MaxGroups == 2
MaxStacks == 2
MaxLayouts == 2
\* tab ids that are not in the pre-filled navigation history
FreshTabs == 2
\* milliseconds the clock may advance over a run
MaxClock == 1

\* Date.now() at start-up; any value that is not one of the initial tab ids
StartTime == 1000

-----------------------------------------------------------------------------
(* Generic helpers *)

Min(a, b) == IF a < b THEN a ELSE b
Max(a, b) == IF a > b THEN a ELSE b

\* Array.prototype.indexOf, 0-based, -1 when absent
IndexOf(s, x) ==
    IF \E i \in 1..Len(s) : s[i] = x
    THEN (CHOOSE i \in 1..Len(s) : s[i] = x /\ \A j \in 1..(i-1) : s[j] # x) - 1
    ELSE -1

\* Array.prototype.includes
Includes(s, x) == \E i \in 1..Len(s) : s[i] = x

\* the elements of a sequence
Range(s) == {s[i] : i \in 1..Len(s)}

-----------------------------------------------------------------------------
(* Tabs and panel nodes (ObsidianLayout) *)

NewTabTitle == "New"

\* a Tab object; isLocked undefined reads as FALSE, documentId undefined as ""
MkTab(id, title, isActive, isLocked, documentId) ==
    [id |-> id, title |-> title, isActive |-> isActive, isLocked |-> isLocked,
     documentId |-> documentId]

\* the absent tab (Array.prototype.find returning undefined)
NoTab == MkTab("", "", FALSE, FALSE, "")

\* createDocument: a fresh document id, written as the tab it was created for
DocFor(tabId) == "doc-" \o tabId

\* Date.now().toString()
NowStr(now) == ToString(now)

Leaf(id, tabs, size, minSize) ==
    [id |-> id, type |-> "leaf", direction |-> "", tabs |-> tabs,
     children |-> <<>>, size |-> size, minSize |-> minSize]

Split(id, direction, children, size, minSize) ==
    [id |-> id, type |-> "split", direction |-> direction, tabs |-> <<>>,
     children |-> children, size |-> size, minSize |-> minSize]

\* null, as returned by findPanelById and removeNode
NoPanel == [id |-> "", type |-> "none", direction |-> "", tabs |-> <<>>,
            children |-> <<>>, size |-> 0, minSize |-> 0]

\* the tree ObsidianLayout is constructed with, after the mount effect has
\* attached a document to every initial tab
InitialTab(id, isActive) == MkTab(id, NewTabTitle, isActive, FALSE, DocFor(id))

InitialPanelTree ==
    Split("root", "horizontal",
          << Leaf("left",
                  << InitialTab("1", TRUE), InitialTab("2", FALSE),
                     InitialTab("3", FALSE) >>, 35, 20),
             Split("right-group", "vertical",
                   << Leaf("topRight", << InitialTab("4", TRUE) >>, 60, 20),
                      Leaf("bottomRight", << InitialTab("5", TRUE) >>, 40, 20) >>,
                   65, 0) >>,
          0, 0)

RECURSIVE FindPanelById(_, _)
FindPanelById(tree, id) ==
    IF tree.id = id THEN tree
    ELSE IF tree.type = "split"
    THEN LET found == [i \in 1..Len(tree.children) |->
                          FindPanelById(tree.children[i], id)]
             hits == {i \in 1..Len(found) : found[i] # NoPanel}
         IN IF hits = {} THEN NoPanel
            ELSE found[CHOOSE i \in hits : \A j \in hits : i <= j]
    ELSE NoPanel

\* `panel?.tabs` is truthy
HasTabs(panel) == panel.type = "leaf"

RECURSIVE UpdateNode(_, _, _)
UpdateNode(node, panelId, newTabs) ==
    IF node.id = panelId /\ node.type = "leaf"
    THEN [node EXCEPT !.tabs = newTabs]
    ELSE IF node.type = "split"
    THEN [node EXCEPT !.children =
             [i \in 1..Len(node.children) |->
                 UpdateNode(node.children[i], panelId, newTabs)]]
    ELSE node

UpdatePanelTabs(tree, panelId, newTabs) == UpdateNode(tree, panelId, newTabs)

\* Array.prototype.find(tab => tab.isActive)
FindActive(tabs) ==
    IF \E i \in 1..Len(tabs) : tabs[i].isActive
    THEN tabs[CHOOSE i \in 1..Len(tabs) :
                 tabs[i].isActive /\ \A j \in 1..(i-1) : ~tabs[j].isActive]
    ELSE NoTab

\* Array.prototype.find(tab => tab.id === id)
FindTab(tabs, id) ==
    IF \E i \in 1..Len(tabs) : tabs[i].id = id
    THEN tabs[CHOOSE i \in 1..Len(tabs) :
                 tabs[i].id = id /\ \A j \in 1..(i-1) : tabs[j].id # id]
    ELSE NoTab

\* a variant that takes any node with the id for the leaf to split
IsNodeNamed(node, panelId) == node.id = panelId

\* the node splitNode replaces: node.id === panelId && node.type === 'leaf'
IsLeafToSplit(node, panelId) == node.id = panelId /\ node.type = "leaf"

RECURSIVE SplitNode(_, _, _, _)
SplitNode(node, panelId, direction, now) ==
    IF IsLeafToSplit(node, panelId)
    THEN LET activeTab == FindActive(node.tabs)
             newTab == IF activeTab # NoTab
                       THEN [activeTab EXCEPT !.id = NowStr(now), !.isActive = TRUE]
                       ELSE MkTab(NowStr(now), NewTabTitle, TRUE, FALSE,
                                  DocFor(NowStr(now)))
         IN Split(node.id, direction,
                  << Leaf(node.id \o "-original", node.tabs, 50, 20),
                     Leaf(node.id \o "-split-" \o NowStr(now), <<newTab>>, 50, 20) >>,
                  node.size, node.minSize)
    ELSE IF node.type = "split"
    THEN [node EXCEPT !.children =
             [i \in 1..Len(node.children) |->
                 SplitNode(node.children[i], panelId, direction, now)]]
    ELSE node

SplitPanel(tree, panelId, direction, now) == SplitNode(tree, panelId, direction, now)

\* a variant that never promotes the remaining child
PromoteNever(newChildren, hasParent) == FALSE

\* the promotion test of removeNode: one child left and the node has a parent
PromoteLoneChild(newChildren, hasParent) == Len(newChildren) = 1 /\ hasParent

RECURSIVE RemoveNode(_, _, _)
RemoveNode(node, panelId, hasParent) ==
    IF node.id = panelId THEN NoPanel
    ELSE IF node.type = "split"
    THEN LET mapped == [i \in 1..Len(node.children) |->
                           RemoveNode(node.children[i], panelId, TRUE)]
             newChildren == SelectSeq(mapped, LAMBDA c : c # NoPanel)
         IN IF PromoteLoneChild(newChildren, hasParent)
            THEN [newChildren[1] EXCEPT !.size = node.size]
            ELSE [node EXCEPT !.children = newChildren]
    ELSE node

\* the blank tab of handleCloseTab, handleCloseAll and removePanelNode
BlankTab(now) == MkTab(NowStr(now), NewTabTitle, TRUE, FALSE, "")

RemovePanelNode(tree, panelId, now) ==
    LET result == RemoveNode(tree, panelId, FALSE)
    IN IF result = NoPanel
       THEN Leaf("root", <<BlankTab(now)>>, 0, 0)
       ELSE result

\* the leaf survives the close of its last tab
KeepsPanel(tree, panelId) == tree.id = panelId \/ tree.type = "leaf"

\* the tab list handleCloseTab installs when tabs remain
TabsAfterClose(tabs, id) ==
    LET newTabs == SelectSeq(tabs, LAMBDA t : t.id # id)
        closedTab == FindTab(tabs, id)
    IN IF closedTab.isActive /\ Len(newTabs) > 0
       THEN [newTabs EXCEPT ![1].isActive = TRUE]
       ELSE newTabs

HandleCloseTab(tree, panelId, id, now) ==
    LET panel == FindPanelById(tree, panelId)
        newTabs == SelectSeq(panel.tabs, LAMBDA t : t.id # id)
    IN IF ~HasTabs(panel) THEN tree
       ELSE IF Len(newTabs) = 0
       THEN IF KeepsPanel(tree, panelId)
            THEN UpdatePanelTabs(tree, panelId, <<BlankTab(now)>>)
            ELSE RemovePanelNode(tree, panelId, now)
       ELSE UpdatePanelTabs(tree, panelId, TabsAfterClose(panel.tabs, id))

\* tabs.map(tab => ({ ...tab, isActive: tab.id === id }))
ActivateById(tabs, id) ==
    [i \in 1..Len(tabs) |-> [tabs[i] EXCEPT !.isActive = (tabs[i].id = id)]]

\* tab.id === id ? { ...tab, isLocked: !tab.isLocked } : tab
ToggleLockTabs(tabs, id) ==
    [i \in 1..Len(tabs) |->
        IF tabs[i].id = id THEN [tabs[i] EXCEPT !.isLocked = ~tabs[i].isLocked]
        ELSE tabs[i]]

CopyTitle(title) == title \o " - copy"

\* handleDuplicate: the tab list with a copy of tab `id` appended
DuplicateTabs(tabs, id, now) ==
    LET targetTab == FindTab(tabs, id)
    IN Append(tabs, [targetTab EXCEPT !.id = NowStr(now),
                                      !.title = CopyTitle(targetTab.title),
                                      !.isActive = FALSE])

RenameTabs(tabs, id, newTitle) ==
    [i \in 1..Len(tabs) |->
        IF tabs[i].id = id THEN [tabs[i] EXCEPT !.title = newTitle] ELSE tabs[i]]

\* handleAddTab: a blank inactive tab with its own document, appended
AddTabTabs(tabs, now) ==
    Append(tabs, MkTab(NowStr(now), NewTabTitle, FALSE, FALSE, DocFor(NowStr(now))))

\* handleCloseOthers: only the target tab, active
CloseOthersTabs(tabs, id) == << [FindTab(tabs, id) EXCEPT !.isActive = TRUE] >>

\* arrayMove of @dnd-kit/sortable, with 1-based positions
ArrayMove(s, from, to) ==
    LET without == [i \in 1..(Len(s) - 1) |-> IF i < from THEN s[i] ELSE s[i + 1]]
    IN [i \in 1..Len(s) |->
           IF i < to THEN without[i]
           ELSE IF i = to THEN s[from]
           ELSE without[i - 1]]

\* TabBar.handleDragEnd: the moved list, the active tab re-marked by id
ReorderTabs(tabs, from, to) ==
    LET newOrder == ArrayMove(tabs, from, to)
        activeId == FindActive(tabs).id
    IN IF FindActive(tabs) = NoTab
       THEN [i \in 1..Len(newOrder) |-> [newOrder[i] EXCEPT !.isActive = FALSE]]
       ELSE ActivateById(newOrder, activeId)

RECURSIVE FindFirstLeafPanelId(_)
FindFirstLeafPanelId(tree) ==
    IF tree.type = "leaf" THEN tree.id
    ELSE IF tree.type = "split"
    THEN LET found == [i \in 1..Len(tree.children) |->
                          FindFirstLeafPanelId(tree.children[i])]
             hits == {i \in 1..Len(found) : found[i] # ""}
         IN IF hits = {} THEN ""
            ELSE found[CHOOSE i \in hits : \A j \in hits : i <= j]
    ELSE ""

\* getTargetPanelId of openDocumentInTargetPanel
TargetPanelId(tree, lastActive) ==
    IF FindPanelById(tree, lastActive).type = "leaf" THEN lastActive
    ELSE IF FindFirstLeafPanelId(tree) # "" THEN FindFirstLeafPanelId(tree)
    ELSE "left"

OpenDocumentTabs(tabs, docId, title, now) ==
    Append([i \in 1..Len(tabs) |-> [tabs[i] EXCEPT !.isActive = FALSE]],
           MkTab(NowStr(now), title, TRUE, FALSE, docId))

\* the leaves of a tree, left to right
RECURSIVE Leaves(_)
Leaves(node) ==
    IF node.type = "leaf" THEN <<node>>
    ELSE IF node.type = "split"
    THEN LET RECURSIVE Cat(_)
             Cat(i) == IF i > Len(node.children) THEN <<>>
                       ELSE Leaves(node.children[i]) \o Cat(i + 1)
         IN Cat(1)
    ELSE <<>>

\* the split nodes of a tree
RECURSIVE Splits(_)
Splits(node) ==
    IF node.type = "split"
    THEN {node} \cup UNION {Splits(node.children[i]) : i \in 1..Len(node.children)}
    ELSE {}

LeafIds(tree) == {l.id : l \in Range(Leaves(tree))}

-----------------------------------------------------------------------------
(* Maps (JavaScript records keyed by id) *)

EmptyMap == <<>>
Has(m, k) == k \in DOMAIN m
Put(m, k, v) == [x \in DOMAIN m \cup {k} |-> IF x = k THEN v ELSE m[x]]
Delete(m, k) == [x \in DOMAIN m \ {k} |-> m[x]]

-----------------------------------------------------------------------------
(* Per-panel local history of ObsidianLayout *)

NoLocalHistory == [stack |-> <<>>, index |-> -1]

PushHistory(hist, panelId, tabId) ==
    LET h == IF Has(hist, panelId) THEN hist[panelId] ELSE NoLocalHistory
        cut == SubSeq(h.stack, 1, h.index + 1)
        newStack == IF Len(cut) > 0 /\ cut[Len(cut)] = tabId THEN cut
                    ELSE Append(cut, tabId)
    IN Put(hist, panelId, [stack |-> newStack, index |-> Len(newStack) - 1])

\* goBack / goForward move the index when they can
CanGoBack(hist, panelId) == Has(hist, panelId) /\ hist[panelId].index > 0
CanGoForward(hist, panelId) ==
    Has(hist, panelId) /\ hist[panelId].index < Len(hist[panelId].stack) - 1

MoveLocalIndex(hist, panelId, delta) ==
    [hist EXCEPT ![panelId].index = @ + delta]

\* the tree goBack / goForward install: the target tab of the moved index activated
TreeAfterLocalMove(tree, hist, panelId, delta) ==
    LET next == MoveLocalIndex(hist, panelId, delta)
        targetTabId == next[panelId].stack[next[panelId].index + 1]
        panel == FindPanelById(tree, panelId)
    IN IF HasTabs(panel)
       THEN UpdatePanelTabs(tree, panelId, ActivateById(panel.tabs, targetTabId))
       ELSE tree

-----------------------------------------------------------------------------
(* Navigation history of the Tab Manager *)

HistoryMaxSize == 50

\* navigateBack / navigateForward returning null
NullId == "null"

NewHistory(panelId) ==
    [panelId |-> panelId, history |-> <<>>, currentIndex |-> -1,
     maxSize |-> HistoryMaxSize]

\* a variant that leaves an earlier occurrence in the list
SpliceNothing(s, tabId) == s

\* newHistory.splice(existingIndex, 1) when existingIndex > -1
SpliceOut(s, tabId) ==
    LET existingIndex == IndexOf(s, tabId)
    IN IF existingIndex > -1
       THEN SubSeq(s, 1, existingIndex) \o SubSeq(s, existingIndex + 2, Len(s))
       ELSE s

\* a variant that never drops the oldest entry
ShiftNever(s, maxSize) == s

\* newHistory.shift() when the list has outgrown maxSize
ShiftIfOver(s, maxSize) == IF Len(s) > maxSize THEN Tail(s) ELSE s

HistoryAfterAdd(history, tabId) ==
    LET newHistory == ShiftIfOver(Append(SpliceOut(history.history, tabId), tabId),
                                  history.maxSize)
    IN [history EXCEPT !.history = newHistory,
                       !.currentIndex = Len(newHistory) - 1]

AddToHistory(prev, panelId, tabId) ==
    LET history == IF Has(prev, panelId) THEN prev[panelId] ELSE NewHistory(panelId)
    IN Put(prev, panelId, HistoryAfterAdd(history, tabId))

\* a variant that lets navigateBack step below index 0
AtBackBoundBelowZero(state, panelId) ==
    ~Has(state, panelId) \/ state[panelId].currentIndex < 0

\* the early returns of navigateBack / navigateForward, on the rendered state
AtBackBound(state, panelId) ==
    ~Has(state, panelId) \/ state[panelId].currentIndex <= 0
AtForwardBound(state, panelId) ==
    \/ ~Has(state, panelId)
    \/ state[panelId].currentIndex >= Len(state[panelId].history) - 1

BackIndex(history) == history.currentIndex - 1

\* a variant that skips an entry
ForwardIndexByTwo(history) == history.currentIndex + 2
ForwardIndex(history) == history.currentIndex + 1

\* the value navigateBack returns (history[newIndex]; undefined reads as null)
EntryAt(history, newIndex) ==
    IF newIndex >= 0 /\ newIndex < Len(history.history)
    THEN history.history[newIndex + 1] ELSE NullId

NavigateBackResult(state, panelId) ==
    IF AtBackBound(state, panelId) THEN NullId
    ELSE EntryAt(state[panelId], BackIndex(state[panelId]))

NavigateForwardResult(state, panelId) ==
    IF AtForwardBound(state, panelId) THEN NullId
    ELSE EntryAt(state[panelId], ForwardIndex(state[panelId]))

\* the updater navigateBack queues: the rendered record with the new index,
\* written into the latest state
NavigateBackState(state, prev, panelId) ==
    IF AtBackBound(state, panelId) THEN prev
    ELSE Put(prev, panelId,
             [state[panelId] EXCEPT !.currentIndex = BackIndex(state[panelId])])

NavigateForwardState(state, prev, panelId) ==
    IF AtForwardBound(state, panelId) THEN prev
    ELSE Put(prev, panelId,
             [state[panelId] EXCEPT !.currentIndex = ForwardIndex(state[panelId])])

\* Array.prototype.slice(start): a negative start counts from the end
Slice(s, start) ==
    LET from == IF start < 0 THEN Max(Len(s) + start, 0) ELSE Min(start, Len(s))
    IN SubSeq(s, from + 1, Len(s))

\* Array.prototype.reverse()
Reverse(s) == [i \in 1..Len(s) |-> s[Len(s) - i + 1]]

\* getRecentTabs(panelId, limit = 10)
DefaultLimit == 10

GetRecentTabs(stateHistories, panelId, limit) ==
    IF ~Has(stateHistories, panelId) THEN <<>>
    ELSE Reverse(Slice(stateHistories[panelId].history, -limit))

-----------------------------------------------------------------------------
(* Tab groups (TabManagerProvider).  A group object is a heap cell; its    *)
(* `tabs` property refers to an array cell.  `own` is the set of the       *)
(* properties the object actually has: updateTabGroup on an id that is not *)
(* stored builds an object out of the update alone.                        *)

GroupProps == {"id", "name", "color", "tabs", "isCollapsed", "isLocked", "position"}

\* an object without properties; tabs = 0 refers to no array
BareGroup ==
    [own |-> {}, id |-> "", name |-> "", color |-> "", tabs |-> 0,
     isCollapsed |-> FALSE, isLocked |-> FALSE, position |-> 0]

\* the smallest reference that is not in use
Alloc(heap) ==
    CHOOSE r \in 1..(Cardinality(DOMAIN heap) + 1) :
        r \notin DOMAIN heap /\ \A q \in 1..(r - 1) : q \in DOMAIN heap

\* the groups of a Tab Manager state: the id map and the two heaps
GroupState(map, objs, arrs) == [map |-> map, objs |-> objs, arrs |-> arrs]

LiveGroups == GroupState(tabGroups, groupObjs, groupArrs)

\* `group.tabs` is defined
HasTabsProp(obj) == "tabs" \in obj.own

\* the value of a group object, its array read through the heap
GroupValue(obj, arrs) ==
    [own |-> obj.own, id |-> obj.id, name |-> obj.name, color |-> obj.color,
     tabs |-> IF HasTabsProp(obj) THEN arrs[obj.tabs] ELSE <<>>,
     isCollapsed |-> obj.isCollapsed, isLocked |-> obj.isLocked,
     position |-> obj.position]

\* the value of an id -> reference map
GroupsValue(map, objs, arrs) ==
    [k \in DOMAIN map |-> GroupValue(objs[map[k]], arrs)]

\* position: Object.keys(state.tabGroups).length
NewGroupPosition(stateMap) == Cardinality(DOMAIN stateMap)

\* createTabGroup: `state` is the rendered map, `g` the latest state
CreateTabGroup(stateMap, g, groupId, name, color, tabIds) ==
    LET a == Alloc(g.arrs)
        o == Alloc(g.objs)
        newGroup == [own |-> GroupProps, id |-> groupId, name |-> name,
                     color |-> color, tabs |-> a, isCollapsed |-> FALSE,
                     isLocked |-> FALSE, position |-> NewGroupPosition(stateMap)]
    IN GroupState(Put(g.map, groupId, o), Put(g.objs, o, newGroup),
                  Put(g.arrs, a, tabIds))

\* { ...obj, ...updates } for an update of one property
Spread(obj, prop, value) ==
    LET withOwn == [obj EXCEPT !.own = @ \cup {prop}]
    IN CASE prop = "isCollapsed" -> [withOwn EXCEPT !.isCollapsed = value]
         [] prop = "isLocked" -> [withOwn EXCEPT !.isLocked = value]
         [] prop = "name" -> [withOwn EXCEPT !.name = value]
         [] prop = "color" -> [withOwn EXCEPT !.color = value]

\* updateTabGroup: a new object under groupId, whether or not one was stored
UpdateTabGroup(g, groupId, prop, value) ==
    LET old == IF Has(g.map, groupId) THEN g.objs[g.map[groupId]] ELSE BareGroup
        o == Alloc(g.objs)
    IN GroupState(Put(g.map, groupId, o), Put(g.objs, o, Spread(old, prop, value)),
                  g.arrs)

\* a variant that drops every group once the named one is stored
DeleteTabGroupAndOthers(g, groupId) ==
    GroupState(IF Has(g.map, groupId) THEN EmptyMap ELSE g.map, g.objs, g.arrs)

\* deleteTabGroup: `delete newGroups[groupId]` on a copy of the map
DeleteTabGroup(g, groupId) == GroupState(Delete(g.map, groupId), g.objs, g.arrs)

\* addTabToGroup reads group.tabs of an object that has none
AddTabToGroupThrows(g, groupId) ==
    Has(g.map, groupId) /\ ~HasTabsProp(g.objs[g.map[groupId]])

AddTabToGroup(g, tabId, groupId) ==
    IF ~Has(g.map, groupId) THEN g
    ELSE LET group == g.objs[g.map[groupId]]
             a == Alloc(g.arrs)
             o == Alloc(g.objs)
         IN IF Includes(g.arrs[group.tabs], tabId) THEN g
            ELSE GroupState(Put(g.map, groupId, o),
                            Put(g.objs, o, [group EXCEPT !.tabs = a]),
                            Put(g.arrs, a, Append(g.arrs[group.tabs], tabId)))

\* tabs.filter(id => id !== tabId)
WithoutTab(tabs, tabId) == SelectSeq(tabs, LAMBDA id : id # tabId)

\* `obj.tabs = obj.tabs.filter(...)`: the object at `ref` gets a new array
AssignFilteredTabs(g, ref, tabId) ==
    LET a == Alloc(g.arrs)
    IN GroupState(g.map, [g.objs EXCEPT ![ref].tabs = a],
                  Put(g.arrs, a, WithoutTab(g.arrs[g.objs[ref].tabs], tabId)))

\* removeTabFromGroup reads group.tabs of every stored object
RemoveTabFromGroupThrows(g) ==
    \E k \in DOMAIN g.map : ~HasTabsProp(g.objs[g.map[k]])

\* the forEach of removeTabFromGroup over the objects at `refs`
RECURSIVE RemoveFromEach(_, _, _)
RemoveFromEach(g, refs, tabId) ==
    IF refs = {} THEN g
    ELSE LET ref == CHOOSE r \in refs : \A q \in refs : r <= q
             hit == IndexOf(g.arrs[g.objs[ref].tabs], tabId) > -1
         IN RemoveFromEach(IF hit THEN AssignFilteredTabs(g, ref, tabId) ELSE g,
                           refs \ {ref}, tabId)

RemoveTabFromGroup(g, tabId) ==
    RemoveFromEach(g, {g.map[k] : k \in DOMAIN g.map}, tabId)

\* moveTabBetweenGroups reads fromGroup.tabs, then toGroup.tabs
MoveTabThrows(g, fromGroupId, toGroupId) ==
    /\ Has(g.map, fromGroupId) /\ Has(g.map, toGroupId)
    /\ \/ ~HasTabsProp(g.objs[g.map[fromGroupId]])
       \/ ~HasTabsProp(g.objs[g.map[toGroupId]])

\* `toGroup.tabs.push(tabId)` unless the array includes it: the array cell changes
PushUnlessIncluded(g, ref, tabId) ==
    LET a == g.objs[ref].tabs
    IN IF Includes(g.arrs[a], tabId) THEN g
       ELSE GroupState(g.map, g.objs, [g.arrs EXCEPT ![a] = Append(@, tabId)])

MoveTabBetweenGroups(g, tabId, fromGroupId, toGroupId) ==
    IF ~Has(g.map, fromGroupId) \/ ~Has(g.map, toGroupId) THEN g
    ELSE PushUnlessIncluded(AssignFilteredTabs(g, g.map[fromGroupId], tabId),
                            g.map[toGroupId], tabId)

-----------------------------------------------------------------------------
(* Tab stacks: every operation builds new objects, so stacks are values *)

NewStack(stackId, panelId, tabIds) ==
    [id |-> stackId, tabs |-> tabIds, activeTabIndex |-> 0, isStacked |-> TRUE,
     panelId |-> panelId]

CreateTabStack(prev, stackId, panelId, tabIds) ==
    Put(prev, stackId, NewStack(stackId, panelId, tabIds))

AddTabToStack(prev, tabId, stackId) ==
    IF ~Has(prev, stackId) \/ Includes(prev[stackId].tabs, tabId) THEN prev
    ELSE [prev EXCEPT ![stackId].tabs = Append(@, tabId)]

\* a variant that leaves the index where it was
KeepActiveIndex(activeTabIndex, newLength) == activeTabIndex

\* Math.min(stack.activeTabIndex, Math.max(0, newTabs.length - 1))
ClampActiveIndex(activeTabIndex, newLength) ==
    Min(activeTabIndex, Max(0, newLength - 1))

RemoveTabFromStack(prev, tabId, stackId) ==
    IF ~Has(prev, stackId) THEN prev
    ELSE LET newTabs == WithoutTab(prev[stackId].tabs, tabId)
         IN [prev EXCEPT ![stackId].tabs = newTabs,
                         ![stackId].activeTabIndex =
                             ClampActiveIndex(@, Len(newTabs))]

\* a variant that accepts any index that is not negative
SetStackActiveTabNoUpperBound(prev, stackId, tabIndex) ==
    IF ~Has(prev, stackId) \/ tabIndex < 0 THEN prev
    ELSE [prev EXCEPT ![stackId].activeTabIndex = tabIndex]

SetStackActiveTab(prev, stackId, tabIndex) ==
    IF ~Has(prev, stackId) \/ tabIndex < 0 \/ tabIndex >= Len(prev[stackId].tabs)
    THEN prev
    ELSE [prev EXCEPT ![stackId].activeTabIndex = tabIndex]

\* toggleStackMode reads prev.tabStacks[stackId].isStacked of undefined
ToggleStackModeThrows(prev, stackId) == ~Has(prev, stackId)

\* a variant that only ever unstacks
ToggleStackModeOff(prev, stackId) ==
    [prev EXCEPT ![stackId].isStacked = FALSE]

\* isStacked: !prev.tabStacks[stackId].isStacked
ToggleStackMode(prev, stackId) ==
    [prev EXCEPT ![stackId].isStacked = ~@]

-----------------------------------------------------------------------------
(* Workspace layouts.  A layout holds the panel tree it was given, a copy  *)
(* of the id -> object map of the groups (the objects themselves are       *)
(* shared with the live state) and a copy of the stack map.                *)

\* isDefault: absent on a new layout, then a boolean
DefaultUnset == "undefined"
DefaultYes == "true"
DefaultNo == "false"

SaveWorkspaceLayout(prev, layoutId, name, tree, stateGroups, stateStacks, now) ==
    Put(prev, layoutId,
        [id |-> layoutId, name |-> name, panelTree |-> tree,
         tabGroups |-> stateGroups, tabStacks |-> stateStacks,
         createdAt |-> now, isDefault |-> DefaultUnset])

\* loadWorkspaceLayout returns state.workspaceLayouts[layoutId], or null
LoadResult(stateLayouts, layoutId) ==
    IF Has(stateLayouts, layoutId) THEN layoutId ELSE NullId

DeleteWorkspaceLayout(prev, layoutId) == Delete(prev, layoutId)

\* a variant that leaves the flag of the other layouts alone
DefaultFlagKeepsOthers(layout, layoutId) ==
    IF layout.id = layoutId THEN DefaultYes ELSE layout.isDefault

\* layout.isDefault = layout.id === layoutId, for every stored layout
DefaultFlag(layout, layoutId) ==
    IF layout.id = layoutId THEN DefaultYes ELSE DefaultNo

\* a variant that marks the named layout and touches no other
SetDefaultOnlyNamed(prev, layoutId) ==
    [k \in DOMAIN prev |->
        IF prev[k].id = layoutId THEN [prev[k] EXCEPT !.isDefault = DefaultYes]
        ELSE prev[k]]

SetDefaultLayout(prev, layoutId) ==
    [k \in DOMAIN prev |-> [prev[k] EXCEPT !.isDefault = DefaultFlag(prev[k], layoutId)]]

\* the value of the stored layouts, group objects read through the heap
LayoutsValue(layouts, objs, arrs) ==
    [k \in DOMAIN layouts |->
        [layouts[k] EXCEPT !.tabGroups = GroupsValue(@, objs, arrs)]]

\* the value of the whole Tab Manager state
TabManagerValue ==
    [tabGroups |-> GroupsValue(tabGroups, groupObjs, groupArrs),
     tabStacks |-> tabStacks,
     workspaceLayouts |-> LayoutsValue(workspaceLayouts, groupObjs, groupArrs),
     navigationHistories |-> navigationHistories,
     shortcuts |-> shortcuts,
     settings |-> settings]

\* what a layout held when it was saved
SnapshotValue(tree, map, objs, arrs, stacks) ==
    [panelTree |-> tree, tabGroups |-> GroupsValue(map, objs, arrs),
     tabStacks |-> stacks]

-----------------------------------------------------------------------------
(* Garbage: heap cells no map refers to any more are dropped *)

LiveObjRefs(map, layouts) ==
    {map[k] : k \in DOMAIN map}
        \cup UNION {{layouts[l].tabGroups[k] : k \in DOMAIN layouts[l].tabGroups} :
                       l \in DOMAIN layouts}

Restrict(heap, refs) == [r \in DOMAIN heap \cap refs |-> heap[r]]

CollectObjs(g, layouts) == Restrict(g.objs, LiveObjRefs(g.map, layouts))

CollectArrs(g, layouts) ==
    LET objs == CollectObjs(g, layouts)
    IN Restrict(g.arrs, {objs[r].tabs : r \in DOMAIN objs})

\* the group state `g` and the layouts become the next state
InstallGroups(g, layouts) ==
    /\ tabGroups' = g.map
    /\ groupObjs' = CollectObjs(g, layouts)
    /\ groupArrs' = CollectArrs(g, layouts)
    /\ workspaceLayouts' = layouts

-----------------------------------------------------------------------------
(* Settings *)

DEFAULT_SETTINGS ==
    [maxVisibleTabs |-> 8, enableAutoStacking |-> TRUE,
     stackingStrategy |-> "overflow", enableTabGroups |-> TRUE,
     showTabPreview |-> TRUE]

SettingKeys == DOMAIN DEFAULT_SETTINGS

\* { ...base, ...over } for two objects of settings
SpreadSettings(base, over) ==
    [k \in DOMAIN base \cup DOMAIN over |-> IF k \in DOMAIN over THEN over[k] ELSE base[k]]

\* updateSettings: { ...prev.settings, ...settings }
UpdateSettings(prev, updates) == SpreadSettings(prev, updates)

\* a variant that stacks whatever the strategy is
ShouldStackTabsAnyStrategy(stateSettings, panelId, tabCount) ==
    /\ stateSettings.enableAutoStacking
    /\ tabCount > stateSettings.maxVisibleTabs

ShouldStackTabs(stateSettings, panelId, tabCount) ==
    /\ stateSettings.enableAutoStacking
    /\ stateSettings.stackingStrategy = "overflow"
    /\ tabCount > stateSettings.maxVisibleTabs

-----------------------------------------------------------------------------
(* Persistence (TabManagerProvider effects).  A state object is the record *)
(* of the six properties of `state`, its groups held by reference.         *)

StateKeys ==
    {"tabGroups", "tabStacks", "workspaceLayouts", "navigationHistories",
     "shortcuts", "settings"}

StateObject(map, stacks, layouts, hists, keys, sets) ==
    [tabGroups |-> map, tabStacks |-> stacks, workspaceLayouts |-> layouts,
     navigationHistories |-> hists, shortcuts |-> keys, settings |-> sets]

LiveState ==
    StateObject(tabGroups, tabStacks, workspaceLayouts, navigationHistories,
                shortcuts, settings)

\* useState's initial value
DefaultState ==
    StateObject(EmptyMap, EmptyMap, EmptyMap, EmptyMap, EmptyMap, DEFAULT_SETTINGS)

\* saveTimer.current = null
NoTimer == [tabGroups |-> "none"]

\* localStorage.getItem returns null
NoItem == [kind |-> "none"]
\* an item that is not JSON text
TextItem(text) == [kind |-> "text", text |-> text]
\* an item that is the JSON text of `value`
JsonItem(value) == [kind |-> "json", value |-> value]

\* JSON.stringify(state): the objects are read through their references and
\* written out as one tree; a property that is undefined is left out, which
\* a reader of the tree sees as undefined again
Stringify(state, objs, arrs) ==
    JsonItem([tabGroups |-> GroupsValue(state.tabGroups, objs, arrs),
              tabStacks |-> state.tabStacks,
              workspaceLayouts |-> LayoutsValue(state.workspaceLayouts, objs, arrs),
              navigationHistories |-> state.navigationHistories,
              shortcuts |-> state.shortcuts,
              settings |-> state.settings])

\* `if (saved)`
IsTruthy(item) == item.kind # "none" /\ ~(item.kind = "text" /\ item.text = "")

\* JSON.parse(saved) throws
ParseThrows(item) == item.kind = "text"

\* a variant that takes the stored settings as they are
LoadedSettingsAsStored(parsed) ==
    IF "settings" \in DOMAIN parsed THEN parsed["settings"] ELSE DEFAULT_SETTINGS

\* { ...DEFAULT_SETTINGS, ...parsed.settings }
LoadedSettings(parsed) ==
    IF "settings" \in DOMAIN parsed
    THEN SpreadSettings(DEFAULT_SETTINGS, parsed["settings"])
    ELSE DEFAULT_SETTINGS

\* { ...prev, ...parsed, settings: ... }, as a tree of values
MergeParsed(prev, parsed) ==
    [k \in StateKeys |->
        IF k = "settings" THEN LoadedSettings(parsed)
        ELSE IF k \in DOMAIN parsed THEN parsed[k] ELSE prev[k]]

\* the load effect: the state after the mount, as a tree of values
LoadedState(item) ==
    IF ~IsTruthy(item) \/ ParseThrows(item) THEN DefaultState
    ELSE MergeParsed(DefaultState, item.value)

\* JSON.parse builds a new object for every group it reads
RECURSIVE ParseGroups(_, _, _)
ParseGroups(values, ids, g) ==
    IF ids = {} THEN g
    ELSE LET id == CHOOSE x \in ids : TRUE
             v == values[id]
             a == Alloc(g.arrs)
             o == Alloc(g.objs)
             obj == [own |-> v.own, id |-> v.id, name |-> v.name, color |-> v.color,
                     tabs |-> IF "tabs" \in v.own THEN a ELSE 0,
                     isCollapsed |-> v.isCollapsed, isLocked |-> v.isLocked,
                     position |-> v.position]
         IN ParseGroups(values, ids \ {id},
                        GroupState(Put(g.map, id, o), Put(g.objs, o, obj),
                                   IF "tabs" \in v.own THEN Put(g.arrs, a, v.tabs)
                                   ELSE g.arrs))

\* the layouts of a parsed tree, each with group objects of its own
RECURSIVE ParseLayouts(_, _, _)
ParseLayouts(values, ids, acc) ==
    IF ids = {} THEN acc
    ELSE LET id == CHOOSE x \in ids : TRUE
             g == ParseGroups(values[id].tabGroups, DOMAIN values[id].tabGroups,
                              GroupState(EmptyMap, acc.objs, acc.arrs))
         IN ParseLayouts(values, ids \ {id},
                         [layouts |-> Put(acc.layouts, id,
                                          [values[id] EXCEPT !.tabGroups = g.map]),
                          objs |-> g.objs, arrs |-> g.arrs])

\* a variant that clears nothing
ClearNothing(pending, id) == pending

\* clearTimeout(id)
ClearTimeout(pending, id) == pending \ {id}

\* a variant that schedules nothing
SetTimeoutNever(pending, state) == pending

\* window.setTimeout(() => setItem(..., JSON.stringify(state)), 500)
SetTimeout(pending, state) == pending \cup {state}

\* the save effect after a render: its cleanup, then the effect itself; no
\* render happens when the updater returned the state object it was given
SaveEffect(kept, state) ==
    IF kept THEN UNCHANGED <<saveTimer, timers>>
    ELSE /\ saveTimer' = state
         /\ timers' = SetTimeout(ClearTimeout(ClearTimeout(timers, saveTimer),
                                              saveTimer), state)

-----------------------------------------------------------------------------
(* The record of the last operation *)

NoPre == <<>>
LastOp(op, args, ret, pre) == [op |-> op, args |-> args, ret |-> ret, pre |-> pre]

\* the part of the state the panel-tree handlers leave alone
TabManagerUnchanged ==
    UNCHANGED <<tabGroups, groupObjs, groupArrs, tabStacks, workspaceLayouts,
                shortcuts, settings, idCounter, mounted, saveTimer, timers,
                storage, lastWrite, snapshotAtSave, crashed>>

\* one more user event, unless an exception has taken the application down
Turn ==
    /\ mounted
    /\ ~crashed
    /\ turns > 0
    /\ turns' = turns - 1
    /\ UNCHANGED edits

\* one more user event that edits a tab list
Edit ==
    /\ mounted
    /\ ~crashed
    /\ turns > 0
    /\ turns' = turns - 1
    /\ edits > 0
    /\ edits' = edits - 1

\* Date.now() read by a handler: the clock has stood still or has advanced
Nows == {t \in {clock, clock + 1} : t <= StartTime + MaxClock}

-----------------------------------------------------------------------------
(* User events on a rendered leaf (TabBar of ObsidianLayout) *)

RenameTitles == {"Renamed"}
OpenableDocs == {"file-doc"}
OpenTitle == "Untitled.md"
Directions == {"horizontal", "vertical"}

\* ObsidianLayout.handleActivateTab: the rendered tree with tab `id` activated
HandleActivateTab(tree, panelId, id) ==
    LET panel == FindPanelById(tree, panelId)
    IN IF HasTabs(panel)
       THEN UpdatePanelTabs(tree, panelId, ActivateById(panel.tabs, id))
       ELSE tree

\* what ObsidianLayout.handleActivateTab does to the three pieces of state
ActivateEffects(panelId, id) ==
    IF HasTabs(FindPanelById(panelTree, panelId))
    THEN /\ panelTree' = HandleActivateTab(panelTree, panelId, id)
         /\ historyByPanelId' = PushHistory(historyByPanelId, panelId, id)
         /\ lastActivePanelId' = panelId
    ELSE UNCHANGED <<panelTree, historyByPanelId, lastActivePanelId>>

\* a tab bar handler that writes the navigation histories of the Tab Manager
\* (or, with `kept`, leaves its state object alone), and the save effect of
\* the render that follows
HistoryUpdate(kept, hists) ==
    /\ navigationHistories' = hists
    /\ SaveEffect(kept, StateObject(tabGroups, tabStacks, workspaceLayouts, hists,
                                    shortcuts, settings))
    /\ UNCHANGED <<tabGroups, groupObjs, groupArrs, tabStacks, workspaceLayouts,
                   shortcuts, settings, idCounter, mounted, storage, lastWrite,
                   snapshotAtSave, crashed>>

\* TabBar.handleActivateTab: a click on a tab
ActivateTab ==
    \E leaf \in Range(Leaves(panelTree)) : \E tab \in Range(leaf.tabs) :
        /\ Turn
        /\ HistoryUpdate(FALSE,
                         AddToHistory(navigationHistories, leaf.id, tab.id))
        /\ ActivateEffects(leaf.id, tab.id)
        /\ last' = LastOp("activateTab", <<leaf.id, tab.id>>, NullId, NoPre)
        /\ UNCHANGED clock

\* TabBar.handleBack: the Tab Manager's history first, the local history otherwise
Back ==
    \E leaf \in Range(Leaves(panelTree)) :
        LET tabId == NavigateBackResult(navigationHistories, leaf.id)
        IN /\ Turn
           /\ HistoryUpdate(tabId = NullId,
                            NavigateBackState(navigationHistories,
                                              navigationHistories, leaf.id))
           /\ IF tabId # NullId
              THEN ActivateEffects(leaf.id, tabId)
              ELSE IF CanGoBack(historyByPanelId, leaf.id)
              THEN /\ historyByPanelId' = MoveLocalIndex(historyByPanelId, leaf.id, -1)
                   /\ panelTree' = TreeAfterLocalMove(panelTree, historyByPanelId,
                                                      leaf.id, -1)
                   /\ UNCHANGED lastActivePanelId
              ELSE UNCHANGED <<panelTree, historyByPanelId, lastActivePanelId>>
           /\ last' = LastOp("back", <<leaf.id>>, tabId, NoPre)
           /\ UNCHANGED clock

\* TabBar.handleForward
Forward ==
    \E leaf \in Range(Leaves(panelTree)) :
        LET tabId == NavigateForwardResult(navigationHistories, leaf.id)
        IN /\ Turn
           /\ HistoryUpdate(tabId = NullId,
                            NavigateForwardState(navigationHistories,
                                                 navigationHistories, leaf.id))
           /\ IF tabId # NullId
              THEN ActivateEffects(leaf.id, tabId)
              ELSE IF CanGoForward(historyByPanelId, leaf.id)
              THEN /\ historyByPanelId' = MoveLocalIndex(historyByPanelId, leaf.id, 1)
                   /\ panelTree' = TreeAfterLocalMove(panelTree, historyByPanelId,
                                                      leaf.id, 1)
                   /\ UNCHANGED lastActivePanelId
              ELSE UNCHANGED <<panelTree, historyByPanelId, lastActivePanelId>>
           /\ last' = LastOp("forward", <<leaf.id>>, tabId, NoPre)
           /\ UNCHANGED clock

\* the frame of a handler that only installs a new tree
TreeOnly ==
    UNCHANGED <<historyByPanelId, lastActivePanelId, navigationHistories>>

\* the close button of a tab
CloseTab ==
    \E leaf \in Range(Leaves(panelTree)) : \E tab \in Range(leaf.tabs) :
    \E now \in Nows :
        /\ Turn
        /\ panelTree' = HandleCloseTab(panelTree, leaf.id, tab.id, now)
        /\ clock' = now
        /\ last' = LastOp("closeTab", <<leaf.id, tab.id>>, NullId, panelTree)
        /\ TreeOnly /\ TabManagerUnchanged

AddTab ==
    \E leaf \in Range(Leaves(panelTree)) : \E now \in Nows :
        /\ Edit
        /\ panelTree' = UpdatePanelTabs(panelTree, leaf.id, AddTabTabs(leaf.tabs, now))
        /\ clock' = now
        /\ last' = LastOp("addTab", <<leaf.id>>, NullId, NoPre)
        /\ TreeOnly /\ TabManagerUnchanged

CloseOthers ==
    \E leaf \in Range(Leaves(panelTree)) : \E tab \in Range(leaf.tabs) :
        /\ Edit
        /\ panelTree' = UpdatePanelTabs(panelTree, leaf.id,
                                        CloseOthersTabs(leaf.tabs, tab.id))
        /\ last' = LastOp("closeOthers", <<leaf.id, tab.id>>, NullId, NoPre)
        /\ UNCHANGED clock
        /\ TreeOnly /\ TabManagerUnchanged

CloseAll ==
    \E leaf \in Range(Leaves(panelTree)) : \E now \in Nows :
        /\ Edit
        /\ panelTree' = UpdatePanelTabs(panelTree, leaf.id, <<BlankTab(now)>>)
        /\ clock' = now
        /\ last' = LastOp("closeAll", <<leaf.id>>, NullId, NoPre)
        /\ TreeOnly /\ TabManagerUnchanged

\* handleSplitHorizontal / handleSplitVertical
SplitLeaf ==
    \E leaf \in Range(Leaves(panelTree)) : \E direction \in Directions :
    \E now \in Nows :
        /\ Len(Leaves(panelTree)) < MaxLeaves
        /\ Turn
        /\ panelTree' = SplitPanel(panelTree, leaf.id, direction, now)
        /\ clock' = now
        /\ last' = LastOp("splitPanel", <<leaf.id, direction>>, NullId, panelTree)
        /\ TreeOnly /\ TabManagerUnchanged

\* a panel id that names no node of the tree
UnknownPanelId == "nowhere"

\* splitPanel called with an id that does not name a leaf
SplitElsewhere ==
    \E panelId \in {node.id : node \in Splits(panelTree)} \cup {UnknownPanelId} :
    \E direction \in Directions : \E now \in Nows :
        /\ Turn
        /\ panelTree' = SplitPanel(panelTree, panelId, direction, now)
        /\ clock' = now
        /\ last' = LastOp("splitPanel", <<panelId, direction>>, NullId, panelTree)
        /\ TreeOnly /\ TabManagerUnchanged

ToggleLock ==
    \E leaf \in Range(Leaves(panelTree)) : \E tab \in Range(leaf.tabs) :
        /\ Edit
        /\ panelTree' = UpdatePanelTabs(panelTree, leaf.id,
                                        ToggleLockTabs(leaf.tabs, tab.id))
        /\ last' = LastOp("toggleLock", <<leaf.id, tab.id>>, NullId, NoPre)
        /\ UNCHANGED clock
        /\ TreeOnly /\ TabManagerUnchanged

Duplicate ==
    \E leaf \in Range(Leaves(panelTree)) : \E tab \in Range(leaf.tabs) :
    \E now \in Nows :
        /\ Edit
        /\ panelTree' = UpdatePanelTabs(panelTree, leaf.id,
                                        DuplicateTabs(leaf.tabs, tab.id, now))
        /\ clock' = now
        /\ last' = LastOp("duplicate", <<leaf.id, tab.id>>, NullId, NoPre)
        /\ TreeOnly /\ TabManagerUnchanged

Rename ==
    \E leaf \in Range(Leaves(panelTree)) : \E tab \in Range(leaf.tabs) :
    \E newTitle \in RenameTitles :
        /\ Edit
        /\ panelTree' = UpdatePanelTabs(panelTree, leaf.id,
                                        RenameTabs(leaf.tabs, tab.id, newTitle))
        /\ last' = LastOp("rename", <<leaf.id, tab.id>>, NullId, NoPre)
        /\ UNCHANGED clock
        /\ TreeOnly /\ TabManagerUnchanged

\* TabBar.handleDragEnd: an unlocked tab dropped on another tab
Reorder ==
    \E leaf \in Range(Leaves(panelTree)) :
    \E from \in 1..Len(leaf.tabs), to \in 1..Len(leaf.tabs) :
        /\ from # to
        /\ leaf.tabs[from].id # leaf.tabs[to].id
        /\ ~leaf.tabs[from].isLocked
        /\ Edit
        /\ panelTree' = UpdatePanelTabs(panelTree, leaf.id,
                                        ReorderTabs(leaf.tabs, from, to))
        /\ last' = LastOp("reorder", <<leaf.id>>, NullId, NoPre)
        /\ UNCHANGED clock
        /\ TreeOnly /\ TabManagerUnchanged

\* openDocumentInTargetPanel: a double click on a file of the sidebar
OpenDocument ==
    \E docId \in OpenableDocs : \E now \in Nows :
        LET targetId == TargetPanelId(panelTree, lastActivePanelId)
            targetPanel == FindPanelById(panelTree, targetId)
        IN /\ Edit
           /\ IF targetPanel.type = "leaf"
              THEN /\ panelTree' =
                          UpdatePanelTabs(panelTree, targetId,
                              OpenDocumentTabs(targetPanel.tabs, docId, OpenTitle, now))
                   /\ lastActivePanelId' = targetId
              ELSE UNCHANGED <<panelTree, lastActivePanelId>>
           /\ clock' = now
           /\ last' = LastOp("openDocument", <<docId>>, NullId, NoPre)
           /\ UNCHANGED <<historyByPanelId, navigationHistories>>
           /\ TabManagerUnchanged

\* the handleAddTab of each leaf in turn, each on the tab list it was rendered
\* with; the clock may tick once while the handlers run
RECURSIVE AddTabInLeaves(_, _, _, _, _)
AddTabInLeaves(tree, leaves, i, ticksAfter, now) ==
    IF i > Len(leaves) THEN tree
    ELSE AddTabInLeaves(
             UpdatePanelTabs(tree, leaves[i].id,
                             AddTabTabs(leaves[i].tabs,
                                        IF i <= ticksAfter THEN now ELSE now + 1)),
             leaves, i + 1, ticksAfter, now)

\* Ctrl+T: every TabBar has its own keydown listener on the document, so one
\* key press runs onNewTab in every leaf
ShortcutNewTab ==
    \E now \in Nows : \E ticksAfter \in 1..Len(Leaves(panelTree)) :
        LET ticked == ticksAfter < Len(Leaves(panelTree))
        IN /\ Turn
           /\ ticked => now + 1 <= StartTime + MaxClock
           /\ panelTree' = AddTabInLeaves(panelTree, Leaves(panelTree), 1,
                                          ticksAfter, now)
           /\ clock' = IF ticked THEN now + 1 ELSE now
           /\ last' = LastOp("shortcutNewTab", <<>>, NullId, NoPre)
           /\ TreeOnly /\ TabManagerUnchanged

\* the 'close' item of a tab's dropdown menu: nothing for a locked tab
DropdownClose ==
    \E leaf \in Range(Leaves(panelTree)) : \E tab \in Range(leaf.tabs) :
    \E now \in Nows :
        /\ Turn
        /\ panelTree' = IF tab.isLocked THEN panelTree
                        ELSE HandleCloseTab(panelTree, leaf.id, tab.id, now)
        /\ clock' = IF tab.isLocked THEN clock ELSE now
        /\ last' = LastOp("dropdownClose", <<leaf.id, tab.id>>, NullId, panelTree)
        /\ TreeOnly /\ TabManagerUnchanged

\* the onCloseTab of each leaf in turn: handleCloseTab for the active tab of
\* the tab list the leaf was rendered with, its updater run on the latest tree
RECURSIVE CloseActiveInLeaves(_, _, _, _, _)
CloseActiveInLeaves(rendered, tree, leaves, i, now) ==
    IF i > Len(leaves) THEN tree
    ELSE LET panelId == leaves[i].id
             activeTab == FindActive(leaves[i].tabs)
             newTabs == SelectSeq(leaves[i].tabs, LAMBDA t : t.id # activeTab.id)
         IN CloseActiveInLeaves(
                rendered,
                IF activeTab = NoTab THEN tree
                ELSE IF Len(newTabs) = 0
                THEN IF KeepsPanel(rendered, panelId)
                     THEN UpdatePanelTabs(tree, panelId, <<BlankTab(now)>>)
                     ELSE RemovePanelNode(tree, panelId, now)
                ELSE UpdatePanelTabs(tree, panelId,
                                     TabsAfterClose(leaves[i].tabs, activeTab.id)),
                leaves, i + 1, now)

\* Ctrl+W: the keydown listener of every TabBar runs onCloseTab
ShortcutCloseTab ==
    \E now \in Nows :
        /\ Turn
        /\ panelTree' = CloseActiveInLeaves(panelTree, panelTree,
                                            Leaves(panelTree), 1, now)
        /\ clock' = now
        /\ last' = LastOp("shortcutCloseTab", <<>>, NullId, panelTree)
        /\ TreeOnly /\ TabManagerUnchanged

-----------------------------------------------------------------------------
(* Calls of the Tab Manager interface *)

GroupId(n) == "group_" \o ToString(n)
StackId(n) == "stack_" \o ToString(n)
LayoutId(n) == "layout_" \o ToString(n)

\* ids that resolve, and one that does not
StaleGroupId == "group-gone"
StaleStackId == "stack-gone"
StaleLayoutId == "layout-gone"

GroupIdInputs == DOMAIN tabGroups \cup {StaleGroupId}
StackIdInputs == DOMAIN tabStacks \cup {StaleStackId}
LayoutIdInputs == DOMAIN workspaceLayouts \cup {StaleLayoutId}

\* tab ids handed to the group and stack operations
MemberTabIds == {"1", "2"}
TabIdLists == {<<>>, <<"1">>}
GroupName == "Group"
GroupColor == "#3b82f6"
LayoutName == "Layout"
PanelIds == {"left", "topRight"}

\* tab ids handed to addToHistory
HistoryTabIds == {"1", "2"} \cup {NowStr(StartTime + i) : i \in 1..FreshTabs}

TreeUnchanged == UNCHANGED <<panelTree, historyByPanelId, lastActivePanelId, clock>>

\* the call made no setState, or its updater returned `prev` itself
KeepsStateObject(op, args, ret) ==
    CASE op = "addTabToGroup" ->
             \/ ~Has(tabGroups, args[1])
             \/ Includes(groupArrs[groupObjs[tabGroups[args[1]]].tabs], args[2])
      [] op = "moveTabBetweenGroups" ->
             ~Has(tabGroups, args[1]) \/ ~Has(tabGroups, args[2])
      [] op = "addTabToStack" ->
             ~Has(tabStacks, args[1]) \/ Includes(tabStacks[args[1]].tabs, args[2])
      [] op = "removeTabFromStack" -> ~Has(tabStacks, args[1])
      [] op = "setStackActiveTab" ->
             \/ ~Has(tabStacks, args[1])
             \/ args[2] < 0
             \/ args[2] >= Len(tabStacks[args[1]].tabs)
      [] op \in {"loadWorkspaceLayout", "navigateBack", "navigateForward"} ->
             ret = NullId
      [] op \in {"stackedTabClose", "stackedCloseOthers", "stackedCloseAll"} ->
             args[3] = <<>>
      [] op = "navigateBackTwice" -> ret[1] = NullId
      [] OTHER -> FALSE

\* a call that returns: the next Tab Manager state, and the save effect of
\* the render that follows
Commit(op, args, ret, g, stacks, layouts, hists, ids, snaps, sets) ==
    /\ Turn
    /\ InstallGroups(g, layouts)
    /\ tabStacks' = stacks
    /\ navigationHistories' = hists
    /\ settings' = sets
    /\ idCounter' = ids
    /\ snapshotAtSave' = snaps
    /\ crashed' = FALSE
    /\ SaveEffect(KeepsStateObject(op, args, ret),
                  StateObject(g.map, stacks, layouts, hists, shortcuts, sets))
    /\ last' = LastOp(op, args, ret, TabManagerValue)
    /\ UNCHANGED <<shortcuts, mounted, storage, lastWrite>>

Returns(op, args, ret, g, stacks, layouts, hists, ids, snaps) ==
    Commit(op, args, ret, g, stacks, layouts, hists, ids, snaps, settings)

\* a call whose state updater throws: the error escapes the render and React
\* unmounts the root, which runs the cleanup of the save effect
Throws(op, args) ==
    /\ Turn
    /\ crashed' = TRUE
    /\ mounted' = FALSE
    /\ timers' = ClearTimeout(timers, saveTimer)
    /\ last' = LastOp(op, args, NullId, TabManagerValue)
    /\ UNCHANGED <<navigationHistories, tabGroups, groupObjs, groupArrs, tabStacks,
                   workspaceLayouts, shortcuts, settings, idCounter, saveTimer,
                   storage, lastWrite, snapshotAtSave>>

\* a call that only changes the groups
GroupCall(op, args, g) ==
    Returns(op, args, NullId, g, tabStacks, workspaceLayouts, navigationHistories,
            idCounter, snapshotAtSave)

CallCreateTabGroup ==
    \E tabIds \in TabIdLists :
        /\ Cardinality(DOMAIN tabGroups) < MaxGroups
        /\ Returns("createTabGroup", <<GroupId(idCounter + 1)>>,
                   GroupId(idCounter + 1),
                   CreateTabGroup(tabGroups, LiveGroups, GroupId(idCounter + 1),
                                  GroupName, GroupColor, tabIds),
                   tabStacks, workspaceLayouts, navigationHistories, idCounter + 1,
                   snapshotAtSave)
        /\ TreeUnchanged

\* one event handler that creates two groups: both calls read the
\* `state.tabGroups` of the same render, and their updaters run in turn
CallCreateTwoTabGroups ==
    \E tabIds \in TabIdLists :
        LET first == GroupId(idCounter + 1)
            second == GroupId(idCounter + 2)
            g == CreateTabGroup(tabGroups, LiveGroups, first, GroupName, GroupColor,
                                tabIds)
        IN /\ Cardinality(DOMAIN tabGroups) + 2 <= MaxGroups
           /\ Returns("createTwoTabGroups", <<first, second>>, second,
                      CreateTabGroup(tabGroups, g, second, GroupName, GroupColor,
                                     <<>>),
                      tabStacks, workspaceLayouts, navigationHistories,
                      idCounter + 2, snapshotAtSave)
           /\ TreeUnchanged

\* TabGroup.handleToggleCollapse / handleToggleLock / handleRename
GroupUpdates(groupId) ==
    LET known == Has(tabGroups, groupId)
        obj == IF known THEN groupObjs[tabGroups[groupId]] ELSE BareGroup
    IN {<<"isCollapsed", ~obj.isCollapsed>>, <<"isLocked", ~obj.isLocked>>}

CallUpdateTabGroup ==
    \E groupId \in GroupIdInputs : \E u \in GroupUpdates(groupId) :
        /\ GroupCall("updateTabGroup", <<groupId>>,
                     UpdateTabGroup(LiveGroups, groupId, u[1], u[2]))
        /\ TreeUnchanged

CallDeleteTabGroup ==
    \E groupId \in GroupIdInputs :
        /\ GroupCall("deleteTabGroup", <<groupId>>, DeleteTabGroup(LiveGroups, groupId))
        /\ TreeUnchanged

CallAddTabToGroup ==
    \E tabId \in MemberTabIds : \E groupId \in GroupIdInputs :
        /\ IF AddTabToGroupThrows(LiveGroups, groupId)
           THEN Throws("addTabToGroup", <<groupId, tabId>>)
           ELSE GroupCall("addTabToGroup", <<groupId, tabId>>,
                          AddTabToGroup(LiveGroups, tabId, groupId))
        /\ TreeUnchanged

CallRemoveTabFromGroup ==
    \E tabId \in MemberTabIds :
        /\ IF RemoveTabFromGroupThrows(LiveGroups)
           THEN Throws("removeTabFromGroup", <<tabId>>)
           ELSE GroupCall("removeTabFromGroup", <<tabId>>,
                          RemoveTabFromGroup(LiveGroups, tabId))
        /\ TreeUnchanged

CallMoveTabBetweenGroups ==
    \E tabId \in MemberTabIds :
    \E fromGroupId \in GroupIdInputs, toGroupId \in GroupIdInputs :
        /\ IF MoveTabThrows(LiveGroups, fromGroupId, toGroupId)
           THEN Throws("moveTabBetweenGroups", <<fromGroupId, toGroupId, tabId>>)
           ELSE GroupCall("moveTabBetweenGroups", <<fromGroupId, toGroupId, tabId>>,
                          MoveTabBetweenGroups(LiveGroups, tabId, fromGroupId,
                                               toGroupId))
        /\ TreeUnchanged

\* a call that only changes the stacks
StackCall(op, args, ret, stacks, ids) ==
    Returns(op, args, ret, LiveGroups, stacks, workspaceLayouts,
            navigationHistories, ids, snapshotAtSave)

CallCreateTabStack ==
    \E panelId \in PanelIds : \E tabIds \in TabIdLists \cup {<<"1", "2">>} :
        /\ Cardinality(DOMAIN tabStacks) < MaxStacks
        /\ StackCall("createTabStack", <<StackId(idCounter + 1)>>,
                     StackId(idCounter + 1),
                     CreateTabStack(tabStacks, StackId(idCounter + 1), panelId, tabIds),
                     idCounter + 1)
        /\ TreeUnchanged

CallAddTabToStack ==
    \E tabId \in MemberTabIds : \E stackId \in StackIdInputs :
        /\ StackCall("addTabToStack", <<stackId, tabId>>, NullId,
                     AddTabToStack(tabStacks, tabId, stackId), idCounter)
        /\ TreeUnchanged

CallRemoveTabFromStack ==
    \E tabId \in MemberTabIds : \E stackId \in StackIdInputs :
        /\ StackCall("removeTabFromStack", <<stackId, tabId>>, NullId,
                     RemoveTabFromStack(tabStacks, tabId, stackId), idCounter)
        /\ TreeUnchanged

CallSetStackActiveTab ==
    \E stackId \in StackIdInputs : \E tabIndex \in -1..2 :
        /\ StackCall("setStackActiveTab", <<stackId, tabIndex>>, NullId,
                     SetStackActiveTab(tabStacks, stackId, tabIndex), idCounter)
        /\ TreeUnchanged

CallToggleStackMode ==
    \E stackId \in StackIdInputs :
        /\ IF ToggleStackModeThrows(tabStacks, stackId)
           THEN Throws("toggleStackMode", <<stackId>>)
           ELSE StackCall("toggleStackMode", <<stackId>>, NullId,
                          ToggleStackMode(tabStacks, stackId), idCounter)
        /\ TreeUnchanged

\* WorkspaceManager.handleSaveLayout: the current panel tree is saved
CallSaveWorkspaceLayout ==
    LET layoutId == LayoutId(idCounter + 1)
        layouts == SaveWorkspaceLayout(workspaceLayouts, layoutId, LayoutName,
                                       panelTree, tabGroups, tabStacks, clock)
    IN /\ Cardinality(DOMAIN workspaceLayouts) < MaxLayouts
       /\ Returns("saveWorkspaceLayout", <<layoutId>>, layoutId, LiveGroups,
                  tabStacks, layouts, navigationHistories, idCounter + 1,
                  Put(snapshotAtSave, layoutId,
                      SnapshotValue(panelTree, tabGroups, groupObjs, groupArrs,
                                    tabStacks)))
       /\ TreeUnchanged

\* WorkspaceManager.handleLoadLayout: loadWorkspaceLayout, then the layout's
\* tree is installed by ObsidianLayout.handleLoadWorkspaceLayout
CallLoadWorkspaceLayout ==
    \E layoutId \in LayoutIdInputs :
        LET found == LoadResult(workspaceLayouts, layoutId) # NullId
            layout == workspaceLayouts[layoutId]
        IN /\ Returns("loadWorkspaceLayout", <<layoutId>>,
                      LoadResult(workspaceLayouts, layoutId),
                      IF found
                      THEN GroupState(layout.tabGroups, groupObjs, groupArrs)
                      ELSE LiveGroups,
                      IF found THEN layout.tabStacks ELSE tabStacks,
                      workspaceLayouts, navigationHistories, idCounter,
                      snapshotAtSave)
           /\ panelTree' = IF found THEN layout.panelTree ELSE panelTree
           /\ UNCHANGED <<historyByPanelId, lastActivePanelId, clock>>

\* one event handler that saves the current tree and loads the layout by the
\* id it got back: both calls read the `state` of the same render, and their
\* updaters run in turn
CallSaveThenLoad ==
    LET layoutId == LayoutId(idCounter + 1)
        layouts == SaveWorkspaceLayout(workspaceLayouts, layoutId, LayoutName,
                                       panelTree, tabGroups, tabStacks, clock)
        found == LoadResult(workspaceLayouts, layoutId) # NullId
        layout == workspaceLayouts[layoutId]
    IN /\ Cardinality(DOMAIN workspaceLayouts) < MaxLayouts
       /\ Returns("saveThenLoad", <<layoutId>>,
                  LoadResult(workspaceLayouts, layoutId),
                  IF found THEN GroupState(layout.tabGroups, groupObjs, groupArrs)
                  ELSE LiveGroups,
                  IF found THEN layout.tabStacks ELSE tabStacks,
                  layouts, navigationHistories, idCounter + 1,
                  Put(snapshotAtSave, layoutId,
                      SnapshotValue(panelTree, tabGroups, groupObjs, groupArrs,
                                    tabStacks)))
       /\ panelTree' = IF found THEN layout.panelTree ELSE panelTree
       /\ UNCHANGED <<historyByPanelId, lastActivePanelId, clock>>

CallDeleteWorkspaceLayout ==
    \E layoutId \in LayoutIdInputs :
        /\ Returns("deleteWorkspaceLayout", <<layoutId>>, NullId, LiveGroups,
                   tabStacks, DeleteWorkspaceLayout(workspaceLayouts, layoutId),
                   navigationHistories, idCounter,
                   Delete(snapshotAtSave, layoutId))
        /\ TreeUnchanged

CallSetDefaultLayout ==
    \E layoutId \in LayoutIdInputs :
        /\ Returns("setDefaultLayout", <<layoutId>>, NullId, LiveGroups, tabStacks,
                   SetDefaultLayout(workspaceLayouts, layoutId),
                   navigationHistories, idCounter, snapshotAtSave)
        /\ TreeUnchanged

\* a call that only changes the navigation histories
HistoryCall(op, args, ret, hists) ==
    Returns(op, args, ret, LiveGroups, tabStacks, workspaceLayouts, hists,
            idCounter, snapshotAtSave)

CallAddToHistory ==
    \E panelId \in PanelIds : \E tabId \in HistoryTabIds :
        /\ HistoryCall("addToHistory", <<panelId, tabId>>, NullId,
                       AddToHistory(navigationHistories, panelId, tabId))
        /\ TreeUnchanged

CallNavigateBack ==
    \E panelId \in PanelIds :
        /\ HistoryCall("navigateBack", <<panelId>>,
                       NavigateBackResult(navigationHistories, panelId),
                       NavigateBackState(navigationHistories, navigationHistories,
                                         panelId))
        /\ TreeUnchanged

CallNavigateForward ==
    \E panelId \in PanelIds :
        /\ HistoryCall("navigateForward", <<panelId>>,
                       NavigateForwardResult(navigationHistories, panelId),
                       NavigateForwardState(navigationHistories, navigationHistories,
                                            panelId))
        /\ TreeUnchanged

\* one event handler that records a tab and then steps through the history:
\* addToHistory queues its updater, the navigation reads the `state` of the
\* same render and queues the record it read, and the updaters run in turn
CallAddThenNavigateBack ==
    \E panelId \in PanelIds : \E tabId \in HistoryTabIds :
        /\ HistoryCall("addThenNavigateBack", <<panelId, tabId>>,
                       NavigateBackResult(navigationHistories, panelId),
                       NavigateBackState(navigationHistories,
                                         AddToHistory(navigationHistories, panelId,
                                                      tabId),
                                         panelId))
        /\ TreeUnchanged

CallAddThenNavigateForward ==
    \E panelId \in PanelIds : \E tabId \in HistoryTabIds :
        /\ HistoryCall("addThenNavigateForward", <<panelId, tabId>>,
                       NavigateForwardResult(navigationHistories, panelId),
                       NavigateForwardState(navigationHistories,
                                            AddToHistory(navigationHistories,
                                                         panelId, tabId),
                                            panelId))
        /\ TreeUnchanged

\* one event handler that steps back twice: both calls read the `state` of the
\* same render
CallNavigateBackTwice ==
    \E panelId \in PanelIds :
        /\ HistoryCall("navigateBackTwice", <<panelId>>,
                       <<NavigateBackResult(navigationHistories, panelId),
                         NavigateBackResult(navigationHistories, panelId)>>,
                       NavigateBackState(navigationHistories,
                                         NavigateBackState(navigationHistories,
                                                           navigationHistories,
                                                           panelId),
                                         panelId))
        /\ TreeUnchanged

\* updates handed to updateSettings
SettingUpdates ==
    {[maxVisibleTabs |-> 2], [enableAutoStacking |-> FALSE],
     [stackingStrategy |-> "group"],
     [stackingStrategy |-> "overflow", enableAutoStacking |-> TRUE]}

CallUpdateSettings ==
    \E updates \in SettingUpdates :
        /\ Commit("updateSettings", <<updates>>, NullId, LiveGroups, tabStacks,
                  workspaceLayouts, navigationHistories, idCounter, snapshotAtSave,
                  UpdateSettings(settings, updates))
        /\ TreeUnchanged

\* a call that reads the rendered state and sets none
Reads(op, args, ret) ==
    /\ Turn
    /\ last' = LastOp(op, args, ret, TabManagerValue)
    /\ UNCHANGED <<navigationHistories, tabGroups, groupObjs, groupArrs, tabStacks,
                   workspaceLayouts, shortcuts, settings, idCounter, mounted,
                   saveTimer, timers, storage, lastWrite, snapshotAtSave, crashed>>

\* tab counts handed to shouldStackTabs: small ones, and the default
\* maxVisibleTabs and the count above it
TabCounts ==
    0..MaxTabCount
        \cup {DEFAULT_SETTINGS.maxVisibleTabs, DEFAULT_SETTINGS.maxVisibleTabs + 1}

CallShouldStackTabs ==
    \E panelId \in PanelIds : \E tabCount \in TabCounts :
        /\ Reads("shouldStackTabs", <<panelId, tabCount>>,
                 ShouldStackTabs(settings, panelId, tabCount))
        /\ TreeUnchanged

\* limits handed to getRecentTabs; left out, the limit is the default
Limits == 0..MaxLimit \cup {DefaultLimit}

CallGetRecentTabs ==
    \E panelId \in PanelIds : \E limit \in Limits :
        /\ Reads("getRecentTabs", <<panelId, limit>>,
                 GetRecentTabs(navigationHistories, panelId, limit))
        /\ TreeUnchanged

-----------------------------------------------------------------------------
(* The stacked tab of a tab bar (TabBar, StackedTab) *)

\* Object.values(tabStacks).find(stack => stack.panelId === panelId): the
\* stack of the panel that was created first, none if it has no stack
StacksOf(stacks, panelId) ==
    {n \in 1..idCounter :
        Has(stacks, StackId(n)) /\ stacks[StackId(n)].panelId = panelId}

ExistingStack(stacks, panelId) ==
    IF StacksOf(stacks, panelId) = {} THEN NullId
    ELSE StackId(CHOOSE n \in StacksOf(stacks, panelId) :
                     \A m \in StacksOf(stacks, panelId) : n <= m)

\* the ids of existingStack.tabs that name a tab of the panel
StackTabIds(stack, tabs) ==
    SelectSeq(stack.tabs, LAMBDA tabId : FindTab(tabs, tabId) # NoTab)

\* the tab bar of the leaf renders a StackedTab
RendersStack(leaf) ==
    /\ ShouldStackTabs(settings, leaf.id, Len(leaf.tabs))
    /\ ExistingStack(tabStacks, leaf.id) # NullId

\* removeTabFromStack for every id of `ids`, the updaters run in turn
RECURSIVE RemoveEachFromStack(_, _, _, _)
RemoveEachFromStack(prev, ids, i, stackId) ==
    IF i > Len(ids) THEN prev
    ELSE RemoveEachFromStack(RemoveTabFromStack(prev, ids[i], stackId), ids, i + 1,
                             stackId)

\* `newTabs[0].isActive = true` of handleCloseTab, as the rendered tab list
\* shows it: the first tab that is not the closed one is now active
TabsAsMutated(tabs, id) ==
    LET newTabs == SelectSeq(tabs, LAMBDA t : t.id # id)
    IN IF FindTab(tabs, id).isActive /\ Len(newTabs) > 0
       THEN [k \in 1..Len(tabs) |->
                IF tabs[k] = newTabs[1] THEN [tabs[k] EXCEPT !.isActive = TRUE]
                ELSE tabs[k]]
       ELSE tabs

\* onTabClose for every id of `ids` in one event: each call of handleCloseTab
\* reads the panel in the rendered tree, whose tab objects the calls before
\* it have changed in place, and queues an updater on the latest tree
RECURSIVE CloseEach(_, _, _, _, _, _)
CloseEach(rendered, tree, panelId, ids, i, now) ==
    IF i > Len(ids) THEN tree
    ELSE LET panel == FindPanelById(rendered, panelId)
             newTabs == SelectSeq(panel.tabs, LAMBDA t : t.id # ids[i])
         IN IF ~HasTabs(panel) THEN CloseEach(rendered, tree, panelId, ids, i + 1, now)
            ELSE IF Len(newTabs) = 0
            THEN CloseEach(rendered,
                           IF KeepsPanel(rendered, panelId)
                           THEN UpdatePanelTabs(tree, panelId, <<BlankTab(now)>>)
                           ELSE RemovePanelNode(tree, panelId, now),
                           panelId, ids, i + 1, now)
            ELSE CloseEach(UpdatePanelTabs(rendered, panelId,
                                           TabsAsMutated(panel.tabs, ids[i])),
                           UpdatePanelTabs(tree, panelId,
                                           TabsAfterClose(panel.tabs, ids[i])),
                           panelId, ids, i + 1, now)

\* the menu entry that stacks the tabs of a tab bar
StackPanelTabs ==
    \E leaf \in Range(Leaves(panelTree)) :
        LET stackId == StackId(idCounter + 1)
            tabIds == [k \in 1..Len(leaf.tabs) |-> leaf.tabs[k].id]
        IN /\ Len(leaf.tabs) > settings.maxVisibleTabs
           /\ Cardinality(DOMAIN tabStacks) < MaxStacks
           /\ StackCall("createTabStack", <<stackId>>, stackId,
                        CreateTabStack(tabStacks, stackId, leaf.id, tabIds),
                        idCounter + 1)
           /\ TreeUnchanged

\* StackedTab closes the tabs `ids` of the leaf in one event
StackedClose(op, leaf, ids, now) ==
    LET stackId == ExistingStack(tabStacks, leaf.id)
    IN /\ StackCall(op, <<leaf.id, stackId, ids>>, NullId,
                    RemoveEachFromStack(tabStacks, ids, 1, stackId), idCounter)
       /\ panelTree' = CloseEach(panelTree, panelTree, leaf.id, ids, 1, now)
       /\ clock' = now
       /\ UNCHANGED <<historyByPanelId, lastActivePanelId>>

\* StackedTab.handleTabClose
StackedTabClose ==
    \E leaf \in Range(Leaves(panelTree)) : \E now \in Nows :
        /\ RendersStack(leaf)
        /\ \E id \in Range(StackTabIds(tabStacks[ExistingStack(tabStacks, leaf.id)],
                                       leaf.tabs)) :
               StackedClose("stackedTabClose", leaf, <<id>>, now)

\* StackedTab.handleCloseOthers
StackedCloseOthers ==
    \E leaf \in Range(Leaves(panelTree)) : \E now \in Nows :
        /\ RendersStack(leaf)
        /\ LET tabIds == StackTabIds(tabStacks[ExistingStack(tabStacks, leaf.id)],
                                     leaf.tabs)
           IN \E keepTabId \in Range(tabIds) :
                  StackedClose("stackedCloseOthers", leaf,
                               SelectSeq(tabIds, LAMBDA id : id # keepTabId), now)

\* StackedTab.handleCloseAll
StackedCloseAll ==
    \E leaf \in Range(Leaves(panelTree)) : \E now \in Nows :
        /\ RendersStack(leaf)
        /\ StackedClose("stackedCloseAll", leaf,
                        StackTabIds(tabStacks[ExistingStack(tabStacks, leaf.id)],
                                    leaf.tabs), now)

-----------------------------------------------------------------------------
(* The provider's life: the timeout fires, the provider is unmounted, the  *)
(* page is loaded again                                                    *)

\* the outcome of localStorage.setItem
NotWritten == "none"
Stored == "stored"
Failed == "failed"

\* the timeout fires: JSON.stringify(state) of the state it captured, then
\* setItem, which stores the text or throws (the error is caught and logged)
FireSaveTimer ==
    \E state \in timers : \E outcome \in {Stored, Failed} :
        /\ timers' = timers \ {state}
        /\ storage' = IF outcome = Stored THEN Stringify(state, groupObjs, groupArrs)
                      ELSE storage
        /\ lastWrite' = outcome
        /\ last' = LastOp("saveTimer", <<>>, outcome, TabManagerValue)
        /\ UNCHANGED <<navigationHistories, tabGroups, groupObjs, groupArrs,
                       tabStacks, workspaceLayouts, shortcuts, settings, idCounter,
                       mounted, saveTimer, snapshotAtSave, crashed, turns, edits>>
        /\ TreeUnchanged

\* the provider is unmounted: the cleanup of the save effect runs
Unmount ==
    /\ Turn
    /\ mounted' = FALSE
    /\ timers' = ClearTimeout(timers, saveTimer)
    /\ last' = LastOp("unmount", <<>>, NullId, TabManagerValue)
    /\ UNCHANGED <<navigationHistories, tabGroups, groupObjs, groupArrs, tabStacks,
                   workspaceLayouts, shortcuts, settings, idCounter, saveTimer,
                   storage, lastWrite, snapshotAtSave, crashed>>
    /\ TreeUnchanged

\* the page is loaded: useState's initial values, the load effect, the save
\* effect of the first render and, if the load set a state, of the second
Mount ==
    LET loaded == LoadedState(storage)
        g == ParseGroups(loaded.tabGroups, DOMAIN loaded.tabGroups,
                         GroupState(EmptyMap, EmptyMap, EmptyMap))
        l == ParseLayouts(loaded.workspaceLayouts, DOMAIN loaded.workspaceLayouts,
                          [layouts |-> EmptyMap, objs |-> g.objs, arrs |-> g.arrs])
        state == StateObject(g.map, loaded.tabStacks, l.layouts,
                             loaded.navigationHistories, loaded.shortcuts,
                             loaded.settings)
    IN /\ ~mounted
       /\ turns > 0
       /\ turns' = turns - 1
       /\ tabGroups' = g.map
       /\ groupObjs' = l.objs
       /\ groupArrs' = l.arrs
       /\ workspaceLayouts' = l.layouts
       /\ tabStacks' = loaded.tabStacks
       /\ navigationHistories' = loaded.navigationHistories
       /\ shortcuts' = loaded.shortcuts
       /\ settings' = loaded.settings
       /\ snapshotAtSave' = Restrict(snapshotAtSave, DOMAIN l.layouts)
       /\ mounted' = TRUE
       /\ crashed' = FALSE
       /\ saveTimer' = state
       /\ timers' = SetTimeout(ClearTimeout(SetTimeout(timers, DefaultState),
                                            DefaultState), state)
       /\ panelTree' = InitialPanelTree
       /\ historyByPanelId' = EmptyMap
       /\ lastActivePanelId' = "left"
       /\ last' = LastOp("mount", <<storage>>, NullId, NoPre)
       /\ UNCHANGED <<storage, lastWrite, idCounter, clock, edits>>

-----------------------------------------------------------------------------
(* Construction *)

InitTree ==
    /\ panelTree = InitialPanelTree
    /\ historyByPanelId = EmptyMap
    /\ lastActivePanelId = "left"
    /\ clock = StartTime

InitTabManager ==
    /\ navigationHistories = EmptyMap
    /\ tabGroups = EmptyMap
    /\ groupObjs = EmptyMap
    /\ groupArrs = EmptyMap
    /\ tabStacks = EmptyMap
    /\ workspaceLayouts = EmptyMap
    /\ shortcuts = EmptyMap
    /\ settings = DEFAULT_SETTINGS
    /\ idCounter = 0
    /\ snapshotAtSave = EmptyMap
    /\ crashed = FALSE

\* the provider is mounted, nothing is stored, the save of the rendered state
\* is scheduled
InitMounted ==
    /\ mounted = TRUE
    /\ storage = NoItem
    /\ lastWrite = NotWritten
    /\ saveTimer = LiveState
    /\ timers = {LiveState}

InitState ==
    /\ InitTree
    /\ InitTabManager
    /\ InitMounted
    /\ last = LastOp("init", <<>>, NullId, NoPre)

\* The tab bars of the panel tree: every handler
InitTabBars == InitState /\ turns = TreeTurns /\ edits = MaxEdits

NextTree ==
    \/ ActivateTab \/ Back \/ Forward \/ CloseTab \/ AddTab \/ CloseOthers
    \/ CloseAll \/ SplitLeaf \/ ToggleLock \/ Duplicate \/ Rename \/ Reorder
    \/ OpenDocument

SpecTree == InitTabBars /\ [][NextTree]_vars

\* The panel structure: closing tabs (removePanel) and splitting panels
InitPanels == InitState /\ turns = PanelTurns /\ edits = 0

NextPanels == CloseTab \/ SplitLeaf

SpecPanels == InitPanels /\ [][NextPanels]_vars

\* The panel tree under close and splitPanel on any id
InitSplits == InitState /\ turns = SplitTurns /\ edits = 0

NextSplits == CloseTab \/ SplitLeaf \/ SplitElsewhere

SpecSplits == InitSplits /\ [][NextSplits]_vars

\* The panel tree under the new-tab shortcut, close and split
InitKeys == InitState /\ turns = KeyTurns /\ edits = 0

NextKeys == ShortcutNewTab \/ CloseTab \/ SplitLeaf

SpecKeys == InitKeys /\ [][NextKeys]_vars

\* Tabs locked and closed by the close button, the menu and the keyboard
InitLocks == InitState /\ turns = LockTurns /\ edits = MaxEdits

NextLocks == ToggleLock \/ CloseTab \/ DropdownClose \/ ShortcutCloseTab

SpecLocks == InitLocks /\ [][NextLocks]_vars

\* Clicks on tabs, on their close buttons and on the back / forward buttons
InitNavigation == InitState /\ turns = NavigationTurns /\ edits = 0

NextNavigation == ActivateTab \/ CloseTab \/ Back \/ Forward

SpecNavigation == InitNavigation /\ [][NextNavigation]_vars

\* The whole Tab Manager interface
InitManager == InitState /\ turns = ManagerTurns /\ edits = 0

NextGroups ==
    \/ CallCreateTabGroup \/ CallUpdateTabGroup \/ CallDeleteTabGroup
    \/ CallAddTabToGroup \/ CallRemoveTabFromGroup \/ CallMoveTabBetweenGroups

NextStacks ==
    \/ CallCreateTabStack \/ CallAddTabToStack \/ CallRemoveTabFromStack
    \/ CallSetStackActiveTab \/ CallToggleStackMode

NextLayouts ==
    \/ CallSaveWorkspaceLayout \/ CallLoadWorkspaceLayout
    \/ CallDeleteWorkspaceLayout \/ CallSetDefaultLayout

NextHistory == CallAddToHistory \/ CallNavigateBack \/ CallNavigateForward

Next == NextGroups \/ NextStacks \/ NextLayouts \/ NextHistory

Spec == InitManager /\ [][Next]_vars

\* Tab stacks
InitStacks == InitState /\ turns = StackTurns /\ edits = 0

SpecStacks == InitStacks /\ [][NextStacks]_vars

\* Groups and workspace layouts
InitLayouts == InitState /\ turns = LayoutTurns /\ edits = 0

NextGroupsAndLayouts == NextGroups \/ NextLayouts

SpecLayouts == InitLayouts /\ [][NextGroupsAndLayouts]_vars

\* The provider over its life: page loads, state changes, the save timeout
StartupItems ==
    {NoItem, TextItem(""), TextItem("{tabGroups:"), JsonItem(EmptyMap),
     JsonItem([settings |-> [maxVisibleTabs |-> 3]]),
     JsonItem([shortcuts |-> EmptyMap,
               settings |-> [stackingStrategy |-> "manual",
                             showTabPreview |-> FALSE]])}

InitPersist ==
    /\ InitTree
    /\ InitTabManager
    /\ mounted = FALSE
    /\ storage \in StartupItems
    /\ lastWrite = NotWritten
    /\ saveTimer = NoTimer
    /\ timers = {}
    /\ last = LastOp("init", <<>>, NullId, NoPre)
    /\ turns = PersistTurns /\ edits = 0

NextPersist ==
    \/ Mount \/ Unmount \/ FireSaveTimer
    \/ CallCreateTabGroup \/ CallAddTabToGroup \/ CallRemoveTabFromGroup
    \/ CallSaveWorkspaceLayout \/ CallUpdateSettings \/ CallToggleStackMode

SpecPersist == InitPersist /\ [][NextPersist]_vars

\* A mounted provider: a burst of state changes and the save timeout
InitSaves == InitState /\ turns = BurstTurns /\ edits = 0

NextSaves ==
    \/ CallCreateTabGroup \/ CallAddTabToGroup \/ CallRemoveTabFromGroup
    \/ CallUpdateSettings \/ FireSaveTimer \/ Unmount

SpecSaves == InitSaves /\ [][NextSaves]_vars

\* the browser runs a timeout that is due
FairSaves == SpecSaves /\ WF_vars(FireSaveTimer)

\* Groups and layouts, with handlers that make two calls in one event
InitBatches == InitState /\ turns = BatchTurns /\ edits = 0

NextBatches == NextGroups \/ NextLayouts \/ CallSaveThenLoad

SpecBatches == InitBatches /\ [][NextBatches]_vars

\* The settings and the stacking predicate, with and without a stack
InitSettings == InitState /\ turns = SettingsTurns /\ edits = 0

NextSettings == CallUpdateSettings \/ CallShouldStackTabs \/ CallCreateTabStack

SpecSettings == InitSettings /\ [][NextSettings]_vars

\* Groups that are created and filled, none deleted
InitCreates == InitState /\ turns = CreateTurns /\ edits = 0

NextCreates ==
    \/ CallCreateTabGroup \/ CallCreateTwoTabGroups \/ CallAddTabToGroup
    \/ CallRemoveTabFromGroup \/ CallMoveTabBetweenGroups

SpecCreates == InitCreates /\ [][NextCreates]_vars

\* A tab bar with stacked tabs
InitStacked == InitState /\ turns = StackedTurns /\ edits = 0

NextStacked ==
    \/ CallUpdateSettings \/ StackPanelTabs
    \/ StackedTabClose \/ StackedCloseOthers \/ StackedCloseAll

SpecStacked == InitStacked /\ [][NextStacked]_vars

\* Stacks made of the tabs of a tab bar, their active tab and their members
InitMembers == InitState /\ turns = MemberTurns /\ edits = 0

NextMembers ==
    \/ CallUpdateSettings \/ StackPanelTabs
    \/ CallSetStackActiveTab \/ CallRemoveTabFromStack

SpecMembers == InitMembers /\ [][NextMembers]_vars

\* Navigation histories and the list of recent tabs
InitRecent == InitState /\ turns = RecentTurns /\ edits = 0

NextRecent == CallAddToHistory \/ CallNavigateBack \/ CallGetRecentTabs

SpecRecent == InitRecent /\ [][NextRecent]_vars

\* History calls, one per event or two in the same event
InitSameTurn == InitState /\ turns = SameTurnTurns /\ edits = 0

NextSameTurn ==
    \/ NextHistory
    \/ CallAddThenNavigateBack \/ CallAddThenNavigateForward
    \/ CallNavigateBackTwice

SpecSameTurn == InitSameTurn /\ [][NextSameTurn]_vars

\* Navigation histories, from an empty history and from one that is one entry
\* short of maxSize (tabs "1" .. "49" activated in turn in panel "left")
PrefilledHistory ==
    [panelId |-> "left",
     history |-> [i \in 1..(HistoryMaxSize - 1) |-> NowStr(i)],
     currentIndex |-> HistoryMaxSize - 2,
     maxSize |-> HistoryMaxSize]

InitHistory ==
    /\ InitTree
    /\ tabGroups = EmptyMap /\ groupObjs = EmptyMap /\ groupArrs = EmptyMap
    /\ tabStacks = EmptyMap /\ workspaceLayouts = EmptyMap
    /\ shortcuts = EmptyMap /\ settings = DEFAULT_SETTINGS
    /\ idCounter = 0 /\ snapshotAtSave = EmptyMap /\ crashed = FALSE
    /\ navigationHistories \in {EmptyMap, Put(EmptyMap, "left", PrefilledHistory)}
    /\ InitMounted
    /\ last = LastOp("init", <<>>, NullId, NoPre)
    /\ turns = HistoryTurns /\ edits = 0

SpecHistory == InitHistory /\ [][NextHistory]_vars

-----------------------------------------------------------------------------
(* Properties of the panel tree *)

\* C1: after any sequence of splits and panel removals (closing the last tab
\* of a leaf that is not the root removes the leaf) no split node of the tree
\* has fewer than two children.
C1_SplitsKeepTwoChildren ==
    \A node \in Splits(panelTree) : Len(node.children) >= 2

ActiveTabs(leaf) == {i \in 1..Len(leaf.tabs) : leaf.tabs[i].isActive}

\* C2: after any sequence of tab-bar operations (close, activate, add,
\* duplicate, close others, close all, reorder, toggle lock, rename, split,
\* open document, back, forward) every leaf that has tabs has exactly one
\* active tab.
C2_OneActiveTabPerLeaf ==
    \A i \in 1..Len(Leaves(panelTree)) :
        Leaves(panelTree)[i].tabs # <<>> =>
            Cardinality(ActiveTabs(Leaves(panelTree)[i])) = 1

\* C3: the tree always has at least one leaf and no leaf is without tabs.
\* Closing the last tab of the only leaf leaves that leaf with one fresh tab
\* (title "New", active).
C3_AlwaysALeafNoneEmpty ==
    /\ Len(Leaves(panelTree)) >= 1
    /\ \A i \in 1..Len(Leaves(panelTree)) : Leaves(panelTree)[i].tabs # <<>>
    /\ (last.op = "closeTab" /\ Len(Leaves(panelTree)) = 1
          /\ Len(Leaves(panelTree)[1].tabs) = 1
          /\ Leaves(panelTree)[1].tabs[1].title = NewTabTitle)
       => Leaves(panelTree)[1].tabs[1].isActive

-----------------------------------------------------------------------------
(* Properties of the Tab Manager *)

\* the stored layout as loadWorkspaceLayout hands it out
StoredSnapshot(layoutId) ==
    SnapshotValue(workspaceLayouts[layoutId].panelTree,
                  workspaceLayouts[layoutId].tabGroups, groupObjs, groupArrs,
                  workspaceLayouts[layoutId].tabStacks)

\* C4: a stored workspace layout is an isolated snapshot: the layout that
\* loadWorkspaceLayout returns has the panel tree, tab groups and tab stacks
\* that were current when it was saved, whatever was done to the live state
\* in between.
C4_LoadReturnsSavedSnapshot ==
    (last.op = "loadWorkspaceLayout" /\ last.ret # NullId)
        => StoredSnapshot(last.ret) = snapshotAtSave[last.ret]

\* the operations that take the id of a group, a stack, a layout or a panel
GroupIdOps == {"updateTabGroup", "deleteTabGroup", "addTabToGroup"}
StackIdOps ==
    {"addTabToStack", "removeTabFromStack", "setStackActiveTab", "toggleStackMode"}
LayoutIdOps == {"loadWorkspaceLayout", "deleteWorkspaceLayout", "setDefaultLayout"}
PanelIdOps == {"navigateBack", "navigateForward"}

\* the last call named something the state before it did not hold
UnresolvedId ==
    \/ last.op \in GroupIdOps /\ last.args[1] \notin DOMAIN last.pre.tabGroups
    \/ /\ last.op = "moveTabBetweenGroups"
       /\ \/ last.args[1] \notin DOMAIN last.pre.tabGroups
          \/ last.args[2] \notin DOMAIN last.pre.tabGroups
    \/ last.op \in StackIdOps /\ last.args[1] \notin DOMAIN last.pre.tabStacks
    \/ last.op \in LayoutIdOps /\ last.args[1] \notin DOMAIN last.pre.workspaceLayouts
    \/ last.op \in PanelIdOps /\ last.args[1] \notin DOMAIN last.pre.navigationHistories

\* C5: every Tab Manager operation that names a group, stack, layout or panel
\* that is not stored is a silent no-op: nothing is thrown and the state is
\* what it was.
C5_UnresolvedIdIsNoOp ==
    UnresolvedId => (~crashed /\ TabManagerValue = last.pre)

\* C6: for every panel's navigation history,
\* -1 <= currentIndex < Len(history) <= maxSize.
C6_HistoryIndexInBounds ==
    \A panelId \in DOMAIN navigationHistories :
        LET h == navigationHistories[panelId]
        IN -1 <= h.currentIndex /\ h.currentIndex < Len(h.history)
              /\ Len(h.history) <= h.maxSize

\* a history grew to maxSize and the next new tab id pushed the oldest out
C6_Witness ==
    /\ last.op = "addToHistory"
    /\ last.args[1] \in DOMAIN last.pre.navigationHistories
    /\ LET old == last.pre.navigationHistories[last.args[1]]
           new == navigationHistories[last.args[1]]
       IN /\ Len(old.history) = old.maxSize
          /\ ~Includes(old.history, last.args[2])
          /\ Len(new.history) = new.maxSize
          /\ new.history[1] = old.history[2]

HistoryBefore(panelId) ==
    IF panelId \in DOMAIN last.pre.navigationHistories
    THEN last.pre.navigationHistories[panelId].history
    ELSE <<>>

NoDuplicates(s) == \A i, j \in 1..Len(s) : s[i] = s[j] => i = j

\* C7: addToHistory(p, t) removes t from the list if it is there and appends
\* it: afterwards t is the last entry and occurs once, the other entries keep
\* their order, the list has no duplicates, the oldest entry is dropped when
\* the list would exceed maxSize, currentIndex is Len(history) - 1, and a
\* second addToHistory(p, t) changes nothing.
C7_AddToHistoryDedupAppend ==
    last.op = "addToHistory" =>
        LET panelId == last.args[1]
            tabId == last.args[2]
            h == navigationHistories[panelId]
            others == SelectSeq(HistoryBefore(panelId), LAMBDA x : x # tabId)
        IN /\ h.history # <<>>
           /\ h.history[Len(h.history)] = tabId
           /\ Cardinality({i \in 1..Len(h.history) : h.history[i] = tabId}) = 1
           /\ NoDuplicates(h.history)
           /\ SubSeq(h.history, 1, Len(h.history) - 1) =
                  IF Len(others) + 1 > h.maxSize THEN Tail(others) ELSE others
           /\ Len(h.history) <= h.maxSize
           /\ h.currentIndex = Len(h.history) - 1
           /\ AddToHistory(navigationHistories, panelId, tabId) = navigationHistories

\* a tab id that was in the middle of the list has moved to its end
C7_Witness ==
    /\ last.op = "addToHistory"
    /\ Includes(HistoryBefore(last.args[1]), last.args[2])
    /\ HistoryBefore(last.args[1])[Len(HistoryBefore(last.args[1]))] # last.args[2]
    /\ Len(HistoryBefore(last.args[1])) >= 3

\* navigateBack was called at index 0 or without a history,
\* navigateForward at the last index or without a history
CalledAtBound ==
    \/ /\ last.op = "navigateBack"
       /\ \/ last.args[1] \notin DOMAIN last.pre.navigationHistories
          \/ last.pre.navigationHistories[last.args[1]].currentIndex = 0
    \/ /\ last.op = "navigateForward"
       /\ \/ last.args[1] \notin DOMAIN last.pre.navigationHistories
          \/ last.pre.navigationHistories[last.args[1]].currentIndex =
                 Len(last.pre.navigationHistories[last.args[1]].history) - 1

\* C8: navigateBack at index 0 (or with no history) and navigateForward at
\* the last index (or with no history) return null and leave the whole Tab
\* Manager state unchanged.
C8_BoundsReturnNull ==
    CalledAtBound => (last.ret = NullId /\ ~crashed /\ TabManagerValue = last.pre)

\* navigateBack was called on a stored history that stands at index 0
C8_Witness ==
    /\ CalledAtBound
    /\ last.op = "navigateBack"
    /\ last.args[1] \in DOMAIN last.pre.navigationHistories
    /\ Len(navigationHistories[last.args[1]].history) = 1

\* the history of the panel the last call named, before the call
NavigatedFrom == last.pre.navigationHistories[last.args[1]]

SteppedBack ==
    /\ last.op = "navigateBack"
    /\ last.args[1] \in DOMAIN last.pre.navigationHistories
    /\ NavigatedFrom.currentIndex > 0

SteppedForward ==
    /\ last.op = "navigateForward"
    /\ last.args[1] \in DOMAIN last.pre.navigationHistories
    /\ NavigatedFrom.currentIndex < Len(NavigatedFrom.history) - 1

\* the last call moved the index by `step` and returned the entry it points at
MovedBy(step) ==
    LET panelId == last.args[1]
        h == navigationHistories[panelId]
    IN /\ h.currentIndex = NavigatedFrom.currentIndex + step
       /\ last.ret = NavigatedFrom.history[h.currentIndex + 1]
       /\ h.history = NavigatedFrom.history
       /\ DOMAIN navigationHistories = DOMAIN last.pre.navigationHistories
       /\ \A other \in DOMAIN navigationHistories \ {panelId} :
              navigationHistories[other] = last.pre.navigationHistories[other]

StepsMoveByOne ==
    /\ SteppedBack => MovedBy(-1)
    /\ SteppedForward => MovedBy(1)

\* navigateForward right after a navigateBack of the same panel that moved
ForwardUndoesBack ==
    (/\ SteppedBack
     /\ last'.op = "navigateForward"
     /\ last'.args = last.args)
        => navigationHistories'[last.args[1]].currentIndex = NavigatedFrom.currentIndex

\* C9: away from the bounds navigateBack decrements and navigateForward
\* increments currentIndex by one and returns the history entry at the new
\* index; the history list and the other panels' histories are unchanged;
\* navigateBack followed by navigateForward restores the index.
C9_StepsMoveIndexByOne == []StepsMoveByOne /\ [][ForwardUndoesBack]_vars

\* a navigateForward that undid a navigateBack
C9_Witness ==
    /\ SteppedForward
    /\ last.ret # NullId
    /\ navigationHistories[last.args[1]].currentIndex =
           Len(navigationHistories[last.args[1]].history) - 1

DefaultLayouts ==
    {k \in DOMAIN workspaceLayouts : workspaceLayouts[k].isDefault = DefaultYes}

\* C10 as stated: after setDefaultLayout(id), whatever the id and whatever the
\* stored layouts, exactly one stored layout has isDefault = true.
C10_ExactlyOneDefault ==
    last.op = "setDefaultLayout" => Cardinality(DefaultLayouts) = 1

\* C10, amended: after setDefaultLayout(id) at most one stored layout has
\* isDefault = true; when id is the id of a stored layout, that layout is the
\* one.
C10_AtMostOneDefault ==
    last.op = "setDefaultLayout" =>
        /\ Cardinality(DefaultLayouts) <= 1
        /\ last.args[1] \in DOMAIN last.pre.workspaceLayouts
               => DefaultLayouts = {last.args[1]}

\* the default moved from one stored layout to another
C10_Witness ==
    /\ last.op = "setDefaultLayout"
    /\ Cardinality(DOMAIN workspaceLayouts) >= 2
    /\ DefaultLayouts = {last.args[1]}
    /\ \E k \in DOMAIN last.pre.workspaceLayouts :
           k # last.args[1] /\ last.pre.workspaceLayouts[k].isDefault = DefaultYes

\* C11: in every state reached by saveWorkspaceLayout, loadWorkspaceLayout,
\* deleteWorkspaceLayout and setDefaultLayout calls, at most one stored layout
\* has isDefault = true; after setDefaultLayout(id) on a stored id that layout
\* is the default and the flag of every other layout is false.
C11_DefaultIsExclusive ==
    /\ Cardinality(DefaultLayouts) <= 1
    /\ (last.op = "setDefaultLayout"
          /\ last.args[1] \in DOMAIN last.pre.workspaceLayouts)
       => \A k \in DOMAIN workspaceLayouts :
              workspaceLayouts[k].isDefault =
                  IF k = last.args[1] THEN DefaultYes ELSE DefaultNo

\* a second layout was made the default while the first one held the flag
C11_Witness ==
    /\ last.op = "setDefaultLayout"
    /\ last.args[1] \in DOMAIN last.pre.workspaceLayouts
    /\ last.pre.workspaceLayouts[last.args[1]].isDefault # DefaultYes
    /\ \E k \in DOMAIN workspaceLayouts :
           /\ last.pre.workspaceLayouts[k].isDefault = DefaultYes
           /\ workspaceLayouts[k].isDefault = DefaultNo

\* a step leaves alone every group object and every tabs array that existed
\* before it and still exists after it
PublishedObjectsKept ==
    /\ \A ref \in DOMAIN groupObjs \cap DOMAIN groupObjs' :
           groupObjs'[ref] = groupObjs[ref]
    /\ \A ref \in DOMAIN groupArrs \cap DOMAIN groupArrs' :
           groupArrs'[ref] = groupArrs[ref]

\* C12: mutations are copy-on-write: no operation modifies in place an object
\* or a list reachable from a state value published before the operation, so
\* a reader holding the previous state sees it unchanged.
C12_CopyOnWrite == [][PublishedObjectsKept]_vars

-----------------------------------------------------------------------------
(* Properties of the tabs of the panel tree *)

\* every tab of the tree, leaf by leaf
RECURSIVE TabsOf(_, _)
TabsOf(leaves, i) ==
    IF i > Len(leaves) THEN <<>> ELSE leaves[i].tabs \o TabsOf(leaves, i + 1)

AllTabs(tree) == TabsOf(Leaves(tree), 1)

\* C13: tab identity is never reused and a tab belongs to at most one panel:
\* no two tabs of the panel tree, in the same leaf or in different leaves,
\* have the same id, whatever the clock values the tabs were created at.
C13_TabIdsUnique ==
    \A i, j \in 1..Len(AllTabs(panelTree)) :
        AllTabs(panelTree)[i].id = AllTabs(panelTree)[j].id => i = j

\* a sequence without its k-th element
Without(s, k) == SubSeq(s, 1, k - 1) \o SubSeq(s, k + 1, Len(s))

\* two tab lists that hold the same tabs in the same order, whichever is active
SameTabsButActive(a, b) ==
    /\ Len(a) = Len(b)
    /\ \A i \in 1..Len(a) : [a[i] EXCEPT !.isActive = FALSE] =
                             [b[i] EXCEPT !.isActive = FALSE]

\* the tab list `old` after its k-th tab was closed, as C14 states it
ClosedAsStated(old, k, new) ==
    /\ SameTabsButActive(new, Without(old, k))
    /\ IF old[k].isActive
       THEN {i \in 1..Len(new) : new[i].isActive} = {1}
       ELSE new = Without(old, k)

\* C14: closing tab t in a leaf that holds at least two tabs yields the
\* original tab list minus t in the original order; if t was the active tab
\* the tab now at index 0 is the single active tab; if t was not active the
\* active tab is unchanged.
C14_CloseKeepsOrderActivatesFirst ==
    (/\ last.op = "closeTab"
     /\ Len(FindPanelById(last.pre, last.args[1]).tabs) >= 2)
        => LET old == FindPanelById(last.pre, last.args[1]).tabs
               panel == FindPanelById(panelTree, last.args[1])
           IN /\ HasTabs(panel)
              /\ \E k \in 1..Len(old) :
                     old[k].id = last.args[2] /\ ClosedAsStated(old, k, panel.tabs)

TabIds(tree) == {AllTabs(tree)[i].id : i \in 1..Len(AllTabs(tree))}

IsFreshLeaf(node) ==
    node.type = "leaf" /\ node.size = 50 /\ node.minSize = 20

\* the one tab of the second leaf: the active tab of the split leaf under an
\* id the tree did not hold, or a blank tab when no tab was active
DerivedTab(tab, tabs, usedIds) ==
    /\ tab.isActive
    /\ tab.id \notin usedIds
    /\ IF \E i \in 1..Len(tabs) : tabs[i].isActive
       THEN \E i \in 1..Len(tabs) :
                tabs[i].isActive /\ tab = [tabs[i] EXCEPT !.id = tab.id]
       ELSE tab.title = NewTabTitle /\ ~tab.isLocked

\* `new` stands where the leaf `old` stood, as C15 states it
ReplacedBySplit(old, new, direction, usedIds) ==
    /\ new.type = "split"
    /\ new.direction = direction
    /\ Len(new.children) = 2
    /\ IsFreshLeaf(new.children[1])
    /\ IsFreshLeaf(new.children[2])
    /\ new.children[1].tabs = old.tabs
    /\ Len(new.children[2].tabs) = 1
    /\ DerivedTab(new.children[2].tabs[1], old.tabs, usedIds)

\* the tree `new` is the tree `old` with the leaf panelId replaced by a split
RECURSIVE SplitAsStated(_, _, _, _, _)
SplitAsStated(old, new, panelId, direction, usedIds) ==
    IF old.id = panelId /\ old.type = "leaf"
    THEN ReplacedBySplit(old, new, direction, usedIds)
    ELSE IF old.type = "split"
    THEN /\ [new EXCEPT !.children = <<>>] = [old EXCEPT !.children = <<>>]
         /\ Len(new.children) = Len(old.children)
         /\ \A i \in 1..Len(old.children) :
                SplitAsStated(old.children[i], new.children[i], panelId,
                              direction, usedIds)
    ELSE new = old

\* C15: splitPanel(p, d) on a leaf p replaces that leaf by a split node of
\* direction d with exactly two leaf children of size 50 and minSize 20: the
\* first holds the original tab list in its order, the second holds exactly
\* one active tab, a copy of the leaf's active tab under a fresh id (a fresh
\* blank tab when no tab was active); every other node is unchanged.
C15_SplitReplacesLeaf ==
    (last.op = "splitPanel" /\ FindPanelById(last.pre, last.args[1]).type = "leaf")
        => SplitAsStated(last.pre, panelTree, last.args[1], last.args[2],
                         TabIds(last.pre))

\* C16: splitPanel(p, d) returns the tree unchanged when p does not resolve
\* to a leaf: p names no node, or p is the id of a split node.
C16_SplitOfNonLeafIsNoOp ==
    (last.op = "splitPanel" /\ FindPanelById(last.pre, last.args[1]).type # "leaf")
        => panelTree = last.pre

\* splitPanel was called with the id of a split node that is not the root
C16_Witness ==
    /\ last.op = "splitPanel"
    /\ FindPanelById(last.pre, last.args[1]).type = "split"
    /\ last.args[1] # last.pre.id

-----------------------------------------------------------------------------
(* Properties of removePanel *)

\* the split node that has the node panelId among its children
RECURSIVE ParentOf(_, _)
ParentOf(node, panelId) ==
    IF node.type # "split" THEN NoPanel
    ELSE IF \E i \in 1..Len(node.children) : node.children[i].id = panelId
    THEN node
    ELSE LET found == SelectSeq([i \in 1..Len(node.children) |->
                                    ParentOf(node.children[i], panelId)],
                                LAMBDA n : n # NoPanel)
         IN IF found = <<>> THEN NoPanel ELSE found[1]

ChildIndex(parent, panelId) ==
    CHOOSE i \in 1..Len(parent.children) : parent.children[i].id = panelId

\* the ids and tab lists of the leaves, left to right
LeafTabs(tree) ==
    [i \in 1..Len(Leaves(tree)) |->
        [id |-> Leaves(tree)[i].id, tabs |-> Leaves(tree)[i].tabs]]

\* the last close emptied a leaf that is not the root, which removes the leaf
RemovedLeaf ==
    /\ last.op = "closeTab"
    /\ last.pre.type = "split"
    /\ FindPanelById(last.pre, last.args[1]).type = "leaf"
    /\ \A i \in 1..Len(FindPanelById(last.pre, last.args[1]).tabs) :
           FindPanelById(last.pre, last.args[1]).tabs[i].id = last.args[2]

\* the parent of the removed leaf had two children and has a parent itself
LoneSiblingUnderGrandparent ==
    /\ RemovedLeaf
    /\ Len(ParentOf(last.pre, last.args[1]).children) = 2
    /\ ParentOf(last.pre, ParentOf(last.pre, last.args[1]).id) # NoPanel

\* the sibling stands where the parent stood, with the parent's size
SiblingPromoted ==
    LET parent == ParentOf(last.pre, last.args[1])
        sibling == parent.children[3 - ChildIndex(parent, last.args[1])]
        grandparent == ParentOf(last.pre, parent.id)
        now == FindPanelById(panelTree, grandparent.id)
    IN /\ now.type = "split"
       /\ Len(now.children) = Len(grandparent.children)
       /\ \A i \in 1..Len(now.children) :
              now.children[i] =
                  IF i = ChildIndex(grandparent, parent.id)
                  THEN [sibling EXCEPT !.size = parent.size]
                  ELSE grandparent.children[i]

\* C17: removePanel(p) on a leaf p that is not the root removes exactly that
\* leaf: every other leaf keeps its id and its tab list and the left-to-right
\* order of the remaining leaves is preserved; when p's parent split is left
\* with exactly one child, that child takes the parent's place in the
\* grandparent's child list and inherits the parent's size.
C17_RemoveTakesOneLeaf ==
    /\ RemovedLeaf =>
           LeafTabs(panelTree) =
               SelectSeq(LeafTabs(last.pre), LAMBDA l : l.id # last.args[1])
    /\ LoneSiblingUnderGrandparent => SiblingPromoted

\* a leaf was removed and its sibling, a leaf with tabs, took the parent's place
C17_Witness ==
    /\ LoneSiblingUnderGrandparent
    /\ Len(Leaves(panelTree)) >= 2
    /\ ParentOf(last.pre, last.args[1]).size #
           ParentOf(last.pre, last.args[1]).children[
               3 - ChildIndex(ParentOf(last.pre, last.args[1]), last.args[1])].size

-----------------------------------------------------------------------------
(* Properties of the tab stacks *)

\* C18: in every state reached by createTabStack, addTabToStack,
\* removeTabFromStack, setStackActiveTab and toggleStackMode calls, every
\* stack with tabs has 0 <= activeTabIndex <= Len(tabs) - 1 and a stack
\* without tabs has activeTabIndex = 0; removing the tab at the active last
\* index clamps activeTabIndex to the new last index.
C18_ActiveIndexInRange ==
    /\ \A stackId \in DOMAIN tabStacks :
           LET stack == tabStacks[stackId]
           IN IF stack.tabs = <<>> THEN stack.activeTabIndex = 0
              ELSE 0 <= stack.activeTabIndex
                     /\ stack.activeTabIndex <= Len(stack.tabs) - 1
    /\ (/\ last.op = "removeTabFromStack"
        /\ last.args[1] \in DOMAIN last.pre.tabStacks
        /\ Len(last.pre.tabStacks[last.args[1]].tabs) >= 2
        /\ last.pre.tabStacks[last.args[1]].activeTabIndex =
               Len(last.pre.tabStacks[last.args[1]].tabs) - 1
        /\ last.pre.tabStacks[last.args[1]].tabs[
               Len(last.pre.tabStacks[last.args[1]].tabs)] = last.args[2])
       => tabStacks[last.args[1]].activeTabIndex =
              Len(tabStacks[last.args[1]].tabs) - 1

\* the active tab, the last of the stack, was removed
C18_Witness ==
    /\ last.op = "removeTabFromStack"
    /\ last.args[1] \in DOMAIN last.pre.tabStacks
    /\ last.pre.tabStacks[last.args[1]].activeTabIndex >= 1
    /\ last.pre.tabStacks[last.args[1]].activeTabIndex =
           Len(last.pre.tabStacks[last.args[1]].tabs) - 1
    /\ tabStacks[last.args[1]].activeTabIndex =
           last.pre.tabStacks[last.args[1]].activeTabIndex - 1

\* C19: setStackActiveTab(s, i) with i < 0 or i >= Len(tabs of s) leaves the
\* state unchanged; with 0 <= i < Len(tabs of s) it sets activeTabIndex = i
\* and changes nothing else in the stack or in the other stacks.
C19_SetActiveChecksIndex ==
    (last.op = "setStackActiveTab" /\ last.args[1] \in DOMAIN last.pre.tabStacks)
        => LET before == last.pre.tabStacks[last.args[1]]
           IN IF last.args[2] < 0 \/ last.args[2] >= Len(before.tabs)
              THEN ~crashed /\ TabManagerValue = last.pre
              ELSE /\ ~crashed
                   /\ tabStacks[last.args[1]] =
                          [before EXCEPT !.activeTabIndex = last.args[2]]
                   /\ TabManagerValue =
                          [last.pre EXCEPT !.tabStacks = tabStacks]
                   /\ DOMAIN tabStacks = DOMAIN last.pre.tabStacks
                   /\ \A other \in DOMAIN tabStacks \ {last.args[1]} :
                          tabStacks[other] = last.pre.tabStacks[other]

\* an index just past the end of a stack with tabs was refused
C19_Witness ==
    /\ last.op = "setStackActiveTab"
    /\ last.args[1] \in DOMAIN last.pre.tabStacks
    /\ last.pre.tabStacks[last.args[1]].tabs # <<>>
    /\ last.args[2] = Len(last.pre.tabStacks[last.args[1]].tabs)

-----------------------------------------------------------------------------
(* Properties of the tab groups *)

\* the groups whose tab list holds tabId
GroupsHolding(tabId) ==
    {groupId \in DOMAIN tabGroups :
        LET group == GroupValue(groupObjs[tabGroups[groupId]], groupArrs)
        IN "tabs" \in group.own /\ Includes(group.tabs, tabId)}

\* C20: after any sequence of createTabGroup, addTabToGroup,
\* removeTabFromGroup and moveTabBetweenGroups calls, every tab id is a member
\* of at most one group's tab list.
C20_TabInAtMostOneGroup ==
    \A tabId \in MemberTabIds : Cardinality(GroupsHolding(tabId)) <= 1

-----------------------------------------------------------------------------
(* C21 *)

\* C21: at most one persistence write is pending at any moment; a pending
\* write is for the latest state object (a state change cancelled the write
\* before it and scheduled this one), none is pending once the provider is
\* torn down, and a write that has just stored has stored the current state.
C21_OneWritePending ==
    /\ Cardinality(timers) <= 1
    /\ \A state \in timers : mounted /\ state = LiveState
    /\ (last.op = "saveTimer" /\ last.ret = Stored) =>
           storage = Stringify(LiveState, groupObjs, groupArrs)

\* a write of a state with two groups has fired: the writes scheduled for the
\* states before it were cancelled
C21_Witness ==
    /\ last.op = "saveTimer" /\ last.ret = Stored
    /\ Cardinality(DOMAIN storage.value.tabGroups) = 2
    /\ timers = {}

-----------------------------------------------------------------------------
(* C22 *)

\* no state change is to come and the provider is mounted
Quiet == turns = 0 /\ mounted /\ ~crashed

\* the stored item is the JSON text of the live state
Saved == storage = Stringify(LiveState, groupObjs, groupArrs)

\* the latest write attempt failed
WriteFailed == lastWrite = Failed

\* a new state object has been rendered
StateChanged == mounted' /\ LiveState' # LiveState

\* C22: once state changes have stopped and the provider stays mounted, the
\* save timeout fires and the stored item equals the live state, unless that
\* write failed; a write, failed or not, leaves the live state as it was, and
\* every state change schedules a write of the new state.
C22_SavedOnceQuiet ==
    /\ [](Quiet => <>(timers = {} /\ (Saved \/ WriteFailed)))
    /\ [](last.op = "saveTimer" => TabManagerValue = last.pre)
    /\ [][StateChanged => timers' = {LiveState'}]_vars

\* after a burst of changes that left a group with a tab, the final state has
\* been stored
C22_Witness ==
    /\ Quiet /\ timers = {} /\ Saved
    /\ last.op = "saveTimer" /\ last.ret = Stored
    /\ \E groupId \in DOMAIN tabGroups : storage.value.tabGroups[groupId].tabs # <<>>
    /\ settings # DEFAULT_SETTINGS

-----------------------------------------------------------------------------
(* C23 *)

\* the page has just been loaded with this item in the storage
JustMounted == last.op = "mount"

\* the value of the state a provider starts with
DefaultValue ==
    [tabGroups |-> EmptyMap, tabStacks |-> EmptyMap, workspaceLayouts |-> EmptyMap,
     navigationHistories |-> EmptyMap, shortcuts |-> EmptyMap,
     settings |-> DEFAULT_SETTINGS]

\* the item is missing or is not JSON text
Unreadable(item) == item.kind = "none" \/ item.kind = "text"

\* the settings the item holds, none if it has no settings
StoredSettings(item) ==
    IF "settings" \in DOMAIN item.value THEN item.value["settings"] ELSE EmptyMap

-----------------------------------------------------------------------------
(* C24 *)

\* the state before the call with the groups and stacks of layout `layoutId`
WithSnapshotOf(pre, layoutId) ==
    [pre EXCEPT !.tabGroups = pre.workspaceLayouts[layoutId].tabGroups,
                !.tabStacks = pre.workspaceLayouts[layoutId].tabStacks]

\* loadWorkspaceLayout of an id that is not stored returns null and changes
\* nothing; of a stored id it returns the layout and replaces the live groups
\* and stacks by the layout's, and nothing else
LoadAsStated ==
    last.op = "loadWorkspaceLayout" =>
        IF last.args[1] \in DOMAIN last.pre.workspaceLayouts
        THEN /\ last.ret = last.args[1]
             /\ TabManagerValue = WithSnapshotOf(last.pre, last.args[1])
        ELSE /\ last.ret = NullId
             /\ TabManagerValue = last.pre

\* a load issued in the same event as the save knows the id the save returned
LoadKnowsSavedId == last.op = "saveThenLoad" => last.ret = last.args[1]

\* C24: loadWorkspaceLayout with an unknown id returns null and leaves the
\* state unchanged; with a stored id it returns the layout and replaces only
\* tabGroups and tabStacks by the snapshot's; an id returned by
\* saveWorkspaceLayout is known to a load issued in the same turn.
C24_LoadFrame == LoadAsStated /\ LoadKnowsSavedId

-----------------------------------------------------------------------------
(* C25 *)

\* the history of the panel getRecentTabs was called for, empty if it has none
HistoryAsked ==
    IF Has(last.pre.navigationHistories, last.args[1])
    THEN last.pre.navigationHistories[last.args[1]].history
    ELSE <<>>

\* the last n entries of s, the latest first
LatestFirst(s, n) == [i \in 1..n |-> s[Len(s) - i + 1]]

\* getRecentTabs returned the last min(limit, length) entries, latest first
RecentAsStated ==
    last.ret = LatestFirst(HistoryAsked, Min(last.args[2], Len(HistoryAsked)))

\* C25: getRecentTabs(p, limit) returns exactly the last min(limit,
\* len(history)) entries of p's history, most recent first, for every
\* limit >= 0, the empty list for a panel without history, and changes no state.
C25_RecentTabsLastFirst ==
    last.op = "getRecentTabs" => RecentAsStated /\ TabManagerValue = last.pre

\* the same for the limits above zero
C25_PositiveLimits ==
    (last.op = "getRecentTabs" /\ last.args[2] > 0) =>
        RecentAsStated /\ TabManagerValue = last.pre

-----------------------------------------------------------------------------
(* C26 *)

\* C26: shouldStackTabs(panelId, tabCount) is true exactly when
\* enableAutoStacking is true, stackingStrategy is 'overflow' and tabCount is
\* above maxVisibleTabs, whatever the panel and whether or not a stack is
\* stored; the call changes no state; with the default settings it is false
\* for 8 tabs and true for 9.
C26_StackOnOverflowOnly ==
    last.op = "shouldStackTabs" =>
        /\ last.ret = (/\ last.pre.settings.enableAutoStacking
                       /\ last.pre.settings.stackingStrategy = "overflow"
                       /\ last.args[2] > last.pre.settings.maxVisibleTabs)
        /\ TabManagerValue = last.pre
        /\ last.pre.settings = DEFAULT_SETTINGS =>
               /\ last.args[2] = 8 => ~last.ret
               /\ last.args[2] = 9 => last.ret

\* the predicate was asked for 9 tabs under the default settings, a stack
\* being stored for another panel, and answered true
C26_Witness ==
    /\ last.op = "shouldStackTabs" /\ last.ret
    /\ last.args[2] = 9 /\ settings = DEFAULT_SETTINGS
    /\ \E stackId \in DOMAIN tabStacks : tabStacks[stackId].panelId # last.args[1]

-----------------------------------------------------------------------------
(* C27 *)

\* the position of a stored group
PositionOf(groupId) == groupObjs[tabGroups[groupId]].position

\* the groups created so far, by the order of their creation
CreatedEarlier(a, b) ==
    \E n, m \in 1..idCounter : n < m /\ a = GroupId(n) /\ b = GroupId(m)

\* the group a createTabGroup call has just added has the number of groups
\* stored before it as its position
PositionIsCountAtAdd ==
    last.op = "createTabGroup" =>
        PositionOf(last.ret) = Cardinality(DOMAIN last.pre.tabGroups)

\* C27: a new group's position is the number of groups stored when it is
\* added, also when several groups are created in one turn; so the stored
\* groups have pairwise distinct positions that increase in creation order.
C27_PositionsFollowCreation ==
    /\ PositionIsCountAtAdd
    /\ \A a, b \in DOMAIN tabGroups :
           CreatedEarlier(a, b) => PositionOf(a) < PositionOf(b)

-----------------------------------------------------------------------------
(* C28 *)

\* after deleteTabGroup(g) the state is the state before without the record
\* of g: the other groups, the stacks, layouts, histories and settings are
\* what they were
DeleteFrame ==
    last.op = "deleteTabGroup" =>
        TabManagerValue = [last.pre EXCEPT !.tabGroups = Delete(@, last.args[1])]

\* a deleteTabGroup step leaves the panel tree alone
DeleteKeepsTree == last'.op = "deleteTabGroup" => panelTree' = panelTree

\* C28: deleteTabGroup(g) removes exactly the record of group g; all other
\* groups (members and positions), all stacks, layouts and histories are
\* unchanged, and no tab is removed from the panel tree.
C28_DeleteRemovesOneRecord == []DeleteFrame /\ [][DeleteKeepsTree]_vars

\* a stored group was deleted while another group was stored
C28_Witness ==
    /\ last.op = "deleteTabGroup"
    /\ last.args[1] \in DOMAIN last.pre.tabGroups
    /\ tabGroups # EmptyMap

-----------------------------------------------------------------------------
(* C29 *)

\* toggleStackMode has just returned for a stack that was stored
Toggled ==
    /\ last.op = "toggleStackMode"
    /\ ~crashed
    /\ last.args[1] \in DOMAIN last.pre.tabStacks

\* the stack's isStacked is flipped and nothing else is different
ToggleFlipsOnly ==
    Toggled =>
        TabManagerValue =
            [last.pre EXCEPT !.tabStacks[last.args[1]].isStacked = ~@]

\* a second toggleStackMode of the same stack gives back the state before the
\* first one
ToggleTwiceRestores ==
    (Toggled /\ last'.op = "toggleStackMode" /\ last'.args = last.args /\ ~crashed')
        => TabManagerValue' = last.pre

\* C29: toggleStackMode(s) on an existing stack flips isStacked and leaves
\* the stack's tabs, activeTabIndex and panelId and every other stack
\* unchanged; applying it twice restores the original state.
C29_ToggleFlipsIsStacked == []ToggleFlipsOnly /\ [][ToggleTwiceRestores]_vars

\* a stack with two tabs, the second one active, was toggled while another
\* stack was stored
C29_Witness ==
    /\ Toggled
    /\ Cardinality(DOMAIN tabStacks) = 2
    /\ tabStacks[last.args[1]].activeTabIndex = 1
    /\ ~tabStacks[last.args[1]].isStacked

-----------------------------------------------------------------------------
(* C30 *)

\* StackedTab has just closed several tabs of a panel in one event
ClosedInOneTurn == last.op \in {"stackedCloseOthers", "stackedCloseAll"}

\* the tabs of the panel the closes were issued for, none if it is gone
TabsOfClosedPanel ==
    LET panel == FindPanelById(panelTree, last.args[1])
    IN IF HasTabs(panel) THEN panel.tabs ELSE <<>>

\* C30: when StackedTab's 'close all' or 'close others' closes several tabs of
\* a panel in one event, then after the turn none of those tabs is in the
\* panel's tab list, as none is in the stack they were removed from.
C30_NoLostClose ==
    ClosedInOneTurn =>
        \A id \in Range(last.args[3]) :
            /\ ~Includes(tabStacks[last.args[2]].tabs, id)
            /\ FindTab(TabsOfClosedPanel, id) = NoTab

\* the same for a single close
C30_SingleClose ==
    (last.op = "stackedTabClose" \/ (ClosedInOneTurn /\ Len(last.args[3]) <= 1)) =>
        \A id \in Range(last.args[3]) :
            /\ ~Includes(tabStacks[last.args[2]].tabs, id)
            /\ FindTab(TabsOfClosedPanel, id) = NoTab

-----------------------------------------------------------------------------
(* C31 *)

\* the history of the panel the last call was about
NavigatedHistory == navigationHistories[last.args[1]]

\* an addToHistory and a navigation were issued in one event
AddedThenNavigated ==
    last.op \in {"addThenNavigateBack", "addThenNavigateForward"}

\* two navigateBack calls were issued in one event, with two entries to go
\* back to
SteppedBackTwice ==
    /\ last.op = "navigateBackTwice"
    /\ Has(last.pre.navigationHistories, last.args[1])
    /\ last.pre.navigationHistories[last.args[1]].currentIndex >= 2

\* C31: no update of the navigation history is lost within a turn: after
\* addToHistory(p, t) followed in the same turn by navigateBack(p) or
\* navigateForward(p), the history of p holds t; and two navigateBack(p) calls
\* of one turn move currentIndex by two and return two different tab ids.
C31_NoLostHistoryUpdate ==
    /\ AddedThenNavigated =>
           /\ Has(navigationHistories, last.args[1])
           /\ Includes(NavigatedHistory.history, last.args[2])
    /\ SteppedBackTwice =>
           /\ NavigatedHistory.currentIndex =
                  last.pre.navigationHistories[last.args[1]].currentIndex - 2
           /\ last.ret[1] # last.ret[2]

\* the same when the navigation of the pair is at its bound and returns null
C31_AddSurvivesNullStep ==
    (AddedThenNavigated /\ last.ret = NullId) =>
        /\ Has(navigationHistories, last.args[1])
        /\ Includes(NavigatedHistory.history, last.args[2])
        /\ NavigatedHistory.currentIndex = Len(NavigatedHistory.history) - 1

-----------------------------------------------------------------------------
(* C32 *)

\* the back or forward button of a leaf got a tab id from the Tab Manager
ReportedTab == last.op \in {"back", "forward"} /\ last.ret # NullId

\* the tabs now open in the panel the button belongs to
TabsOfNavigatedPanel ==
    LET panel == FindPanelById(panelTree, last.args[1])
    IN IF HasTabs(panel) THEN panel.tabs ELSE <<>>

\* C32: every tab id navigateBack(p) or navigateForward(p) reports is the id
\* of a tab that is open in panel p, whatever tabs were activated and closed
\* before.
C32_ReportsOpenTabsOnly ==
    ReportedTab => FindTab(TabsOfNavigatedPanel, last.ret) # NoTab

\* the same while every entry of the panel's history is an open tab
C32_OpenWhileHistoryIsOpen ==
    (ReportedTab /\ \A id \in Range(NavigatedHistory.history) :
                        FindTab(TabsOfNavigatedPanel, id) # NoTab)
        => FindTab(TabsOfNavigatedPanel, last.ret) # NoTab

-----------------------------------------------------------------------------
(* C33 *)

\* the stack the last call named, before the call
StackBefore == last.pre.tabStacks[last.args[1]]

\* tabs[activeTabIndex] of a stack
ActiveOf(stack) == stack.tabs[stack.activeTabIndex + 1]

\* removeTabFromStack has taken a member other than the active tab
RemovedInactiveMember ==
    /\ last.op = "removeTabFromStack"
    /\ Has(last.pre.tabStacks, last.args[1])
    /\ Includes(StackBefore.tabs, last.args[2])
    /\ ActiveOf(StackBefore) # last.args[2]

\* the removed tab was positioned after the active tab
RemovedAfterActive ==
    IndexOf(StackBefore.tabs, last.args[2]) > StackBefore.activeTabIndex

\* C33: removeTabFromStack(t, s) with t a member of s other than its active
\* tab leaves the same tab active: tabs[activeTabIndex] names the same tab
\* before and after, whether t stood before or after the active tab.
C33_RemovalKeepsActiveTab ==
    RemovedInactiveMember =>
        ActiveOf(tabStacks[last.args[1]]) = ActiveOf(StackBefore)

\* the same for a tab positioned after the active tab
C33_RemovalAfterActive ==
    (RemovedInactiveMember /\ RemovedAfterActive) =>
        ActiveOf(tabStacks[last.args[1]]) = ActiveOf(StackBefore)

-----------------------------------------------------------------------------
(* C34 *)

\* the tab list of a panel in a tree, empty when the tree has no such leaf
TabListOf(tree, panelId) ==
    LET panel == FindPanelById(tree, panelId)
    IN IF HasTabs(panel) THEN panel.tabs ELSE <<>>

\* a close was asked for one tab, and that tab was locked
ClosedLockedTab(ops) ==
    /\ last.op \in ops
    /\ FindTab(TabListOf(last.pre, last.args[1]), last.args[2]).isLocked

\* the leaf of that tab has the tab list it had
LeafKeptTabs ==
    TabListOf(panelTree, last.args[1]) = TabListOf(last.pre, last.args[1])

\* after the close-tab shortcut, every leaf whose active tab was locked has
\* the tab list it had
ShortcutKeptLockedTabs ==
    last.op = "shortcutCloseTab" =>
        \A leaf \in Range(Leaves(last.pre)) :
            FindActive(leaf.tabs).isLocked =>
                TabListOf(panelTree, leaf.id) = leaf.tabs

\* C34: a locked tab cannot be closed: a close of a tab whose isLocked is true
\* leaves the tab list of its leaf unchanged, whether it comes from the
\* 'close' item of the dropdown menu, from the tab's close button or from the
\* close-tab keyboard shortcut.
C34_LockedTabCannotBeClosed ==
    /\ ClosedLockedTab({"dropdownClose", "closeTab"}) => LeafKeptTabs
    /\ ShortcutKeptLockedTabs

\* the same for the 'close' item of the dropdown menu alone
C34_DropdownKeepsLockedTab ==
    ClosedLockedTab({"dropdownClose"}) => LeafKeptTabs /\ panelTree = last.pre

-----------------------------------------------------------------------------
(* C35 *)

\* the groups as values, after the last call
GroupsNow == GroupsValue(tabGroups, groupObjs, groupArrs)

\* moveTabBetweenGroups was called with two different stored groups
MovedBetweenStored ==
    /\ last.op = "moveTabBetweenGroups"
    /\ last.args[1] \in DOMAIN last.pre.tabGroups
    /\ last.args[2] \in DOMAIN last.pre.tabGroups
    /\ last.args[1] # last.args[2]

\* moveTabBetweenGroups was called with a group that is not stored
MovedBetweenUnknown ==
    /\ last.op = "moveTabBetweenGroups"
    /\ \/ last.args[1] \notin DOMAIN last.pre.tabGroups
       \/ last.args[2] \notin DOMAIN last.pre.tabGroups

\* a tab list with tabId at its end unless it holds it already
WithTab(tabs, tabId) == IF Includes(tabs, tabId) THEN tabs ELSE Append(tabs, tabId)

\* the source lost the tab, the target holds it once, at the end when it is
\* new there, and nothing else differs
MovedAsStated ==
    LET old == last.pre.tabGroups
        from == last.args[1]
        to == last.args[2]
        tabId == last.args[3]
    IN /\ ~crashed
       /\ DOMAIN GroupsNow = DOMAIN old
       /\ GroupsNow[from] = [old[from] EXCEPT !.tabs = WithoutTab(@, tabId)]
       /\ GroupsNow[to] = [old[to] EXCEPT !.tabs = WithTab(@, tabId)]
       /\ \A k \in DOMAIN old \ {from, to} : GroupsNow[k] = old[k]
       /\ [TabManagerValue EXCEPT !.tabGroups = old,
                                  !.workspaceLayouts = last.pre.workspaceLayouts]
              = last.pre

\* C35: moveTabBetweenGroups(t, from, to) with both groups stored and from
\* different from to changes only these two groups: t is no longer in from's
\* list, t occurs exactly once in to's list, appended at the end when it was
\* not there, the other members keep their order and every other group is
\* unchanged; when from or to is not stored the state is unchanged.
C35_MoveChangesTwoGroups ==
    /\ MovedBetweenStored => MovedAsStated
    /\ MovedBetweenUnknown => (~crashed /\ TabManagerValue = last.pre)

\* the same for groups that both have a tab list
C35_MoveOfListedGroups ==
    (/\ MovedBetweenStored
     /\ "tabs" \in last.pre.tabGroups[last.args[1]].own
     /\ "tabs" \in last.pre.tabGroups[last.args[2]].own) => MovedAsStated

====
